---- MODULE Spec2Model ----
(***************************************************************************)
(* ux-audit-bot: an express server with three audit endpoints              *)
(* (/api/audit, /api/lighthouse, /api/ux-audit) and the drivers behind     *)
(* them (runAudit, runLighthouse, runUXAudit).                             *)
(*                                                                         *)
(* Strings are sequences of one-character strings, so that trim, the       *)
(* scheme test and URL parsing are computed character by character.        *)
(***************************************************************************)
EXTENDS Integers, Sequences, FiniteSets, TLC

VARIABLES
    nurl,      \* normalizeUrl: the parameter `url`
    nres,      \* normalizeUrl: the returned value
    npc        \* normalizeUrl: "call" before the call, "ret" after it

VARIABLES
    req,        \* req.query of the request: endpoint, url, platform, lang
    loaded,     \* which driver modules the server's require calls loaded
    hpc,        \* the route handler: "recv", "await" (in `await run...`), "responded"
    res,        \* the response sent (status 0: none yet)
    call,       \* the driver invoked and the arguments it was invoked with
    dpc,        \* position inside the driver
    durl,       \* the driver's local `url`
    browser,    \* the driver's handle: `chrome` in runLighthouse, `browser` in runUXAudit
    proc,       \* the browser process behind the handle: "none", "live", "closed"
    launches,   \* launch calls that returned a browser
    closes,     \* chrome.kill() / browser.close() calls made
    closeErr,   \* the close or kill call threw (killError / closeError)
    err,        \* message of the error thrown inside the driver's try block
    completion, \* how the driver's try/catch completed: return or throw
    page,       \* the puppeteer page: viewport and loaded document
    rpc,        \* position of each inspection routine
    saw         \* what each routine's first page.evaluate observed

VARIABLES
    check,      \* an inspection routine called alone: its name and the data its
                \* page.evaluate calls returned
    checked     \* what the routine returned: issues and score

VARIABLES
    lhr,        \* runnerResult.lhr handed to extractCategoryDetails: audits and auditRefs
    lissues,    \* the issue list extractCategoryDetails returned
    lpc         \* "call" before the call, "ret" after it

VARIABLES
    rin,        \* a driver building its report: the driver and what it works from
    report      \* the report it returned

VARIABLES
    creqs,      \* requests in flight at once: driver, position, handle, outcome
    cprocs      \* every browser process launched so far, in launch order

normVars == <<nurl, nres, npc>>
concVars == <<creqs, cprocs>>
reportVars == <<rin, report>>
scoreVars == <<check, checked>>
lhVars == <<lhr, lissues, lpc>>
pureVars == <<normVars, scoreVars, lhVars, reportVars, concVars>>
srvVars == <<req, loaded, hpc, res, call, dpc, durl, browser, proc, launches,
             closes, closeErr, err, completion, page, rpc, saw>>
vars == <<pureVars, srvVars>>

(***************************************************************************)
(* Bounds of the model.                                                    *)
(***************************************************************************)
MaxPad == 1    \* whitespace characters put before and after an input

(***************************************************************************)
(* Strings.                                                                *)
(***************************************************************************)
\* JavaScript undefined (an absent query parameter or argument).
Undefined == <<"undefined">>

\* String.prototype.trim strips these from both ends.
WhiteSpace == {" ", "\n"}

RECURSIVE TrimStart(_)
TrimStart(s) ==
    IF s # <<>> /\ Head(s) \in WhiteSpace THEN TrimStart(Tail(s)) ELSE s

RECURSIVE TrimEnd(_)
TrimEnd(s) ==
    IF s # <<>> /\ s[Len(s)] \in WhiteSpace
    THEN TrimEnd(SubSeq(s, 1, Len(s) - 1))
    ELSE s

Trim(s) == TrimEnd(TrimStart(s))

\* The /i flag of the scheme pattern: letters compare in lower case.
ToLower(c) ==
    CASE c = "H" -> "h"
      [] c = "T" -> "t"
      [] c = "P" -> "p"
      [] c = "S" -> "s"
      [] OTHER -> c

LowerSeq(s) == [i \in 1..Len(s) |-> ToLower(s[i])]

\* Every sequence over S of length at most n.
SeqsUpTo(S, n) == UNION {[1..k -> S] : k \in 0..n}

StartsWith(s, p) == Len(s) >= Len(p) /\ SubSeq(s, 1, Len(p)) = p

StrHttp  == <<"h", "t", "t", "p", ":", "/", "/">>
StrHttps == <<"h", "t", "t", "p", "s", ":", "/", "/">>

\* url.match(/^https?:\/\//i)
MatchesScheme(s) ==
    StartsWith(LowerSeq(s), StrHttp) \/ StartsWith(LowerSeq(s), StrHttps)

\* !url : undefined and the empty string are falsy.
Falsy(s) == s = Undefined \/ s = <<>>

(***************************************************************************)
(* normalizeUrl (the same text in server.js, utils/audit.js and            *)
(* utils/ux-audit.js).                                                     *)
(***************************************************************************)
\* normalizeUrl without url.trim().
normalizeUrlNoTrim(url) ==
    IF Falsy(url) THEN url
    ELSE IF ~MatchesScheme(url) THEN StrHttps \o url ELSE url

\* normalizeUrl without the scheme test: the prefix is always added.
normalizeUrlAlwaysPrefix(url) ==
    IF Falsy(url) THEN url ELSE StrHttps \o Trim(url)

normalizeUrl(url) ==
    IF Falsy(url) THEN url
    ELSE LET t == Trim(url)
         IN IF ~MatchesScheme(t) THEN StrHttps \o t ELSE t

NormOff == nurl = <<>> /\ nres = <<>> /\ npc = "off"
ScoreOff == check = [routine |-> "none"] /\ checked = [issues |-> <<>>, score |-> 0 - 1]
NoReport == [driver |-> "none"]
ReportOff == rin = [driver |-> "none"] /\ report = NoReport
ConcOff == creqs = <<>> /\ cprocs = <<>>
LHOff == lhr = [audits |-> <<>>] /\ lissues = <<>> /\ lpc = "off"

(***************************************************************************)
(* new URL(url), on the values normalizeUrl returns: a value that carries  *)
(* the http(s) scheme parses when its host is not empty and holds no       *)
(* space, and its port is empty or digits; anything else throws.           *)
(***************************************************************************)
RECURSIVE SkipSlashes(_)
SkipSlashes(s) ==
    IF s # <<>> /\ Head(s) = "/" THEN SkipSlashes(Tail(s)) ELSE s

RECURSIVE UpTo(_, _)
UpTo(s, c) ==
    IF s = <<>> \/ Head(s) = c THEN <<>> ELSE <<Head(s)>> \o UpTo(Tail(s), c)

Digits == {"0", "1", "2", "3", "4", "5", "6", "7", "8", "9"}

URLParses(s) ==
    /\ s # Undefined
    /\ MatchesScheme(s)
    /\ LET rest == IF StartsWith(LowerSeq(s), StrHttps)
                   THEN SubSeq(s, 9, Len(s)) ELSE SubSeq(s, 8, Len(s))
           authority == UpTo(SkipSlashes(rest), "/")
           host == UpTo(authority, ":")
           port == SubSeq(authority, Len(host) + 2, Len(authority))
       IN /\ host # <<>>
          /\ \A i \in 1..Len(host) : host[i] \notin WhiteSpace
          /\ \A i \in 1..Len(port) : port[i] \in Digits

(***************************************************************************)
(* The HTTP facade (server.js; part_002 is the same server with guarded    *)
(* module loading; part_001 is the pages/api handler of /api/audit).       *)
(***************************************************************************)
NoParam == "<undefined>"     \* a query parameter that was not given

Endpoints ==
    {"/api/audit", "pages/api/audit", "/api/lighthouse", "/api/ux-audit", "/health"}

\* Query urls: absent, empty, example.com, a padded upper-case http url,
\* "not a url", and a bare scheme.
ReqUrls ==
    { Undefined, <<>>, <<"x">>,
      <<" ", "H", "T", "T", "P", ":", "/", "/", "x">>,
      <<"x", " ", "x">>, StrHttp }
ReqPlatforms == {NoParam, "web", "mobile", "desktop", ""}
ReqLangs == {NoParam, "en", "ru", "de"}
NodeEnvs == {NoParam, "development", "production", "test"}

NoRes == [status |-> 0, error |-> "", errLang |-> "", details |-> <<>>,
          stack |-> FALSE, body |-> "none", url |-> <<>>, nodeEnv |-> ""]
NoCall == [driver |-> "none", url |-> <<>>, platform |-> "", lang |-> ""]
NoCompletion == [kind |-> "none", msg |-> <<>>]

Routines == {"visualHierarchy", "navigation", "typography", "interactivity",
             "mobileAdaptation", "accessibility"}

NoPage == [viewport |-> "none", doc |-> "none"]
Desktop == [width |-> 1920, height |-> 1080]
Mobile == [width |-> 375, height |-> 667]

\* The page as the routines are handed it: 1920x1080, loaded by page.goto.
Snapshot == [viewport |-> Desktop, doc |-> "loaded"]
Observed(p) == IF p = Snapshot THEN "snapshot" ELSE "changed"

DriverOff ==
    /\ call = NoCall /\ dpc = "off" /\ durl = <<>>
    /\ browser = "null" /\ proc = "none" /\ launches = 0 /\ closes = 0
    /\ closeErr = FALSE
    /\ err = <<>> /\ completion = NoCompletion
    /\ page = NoPage
    /\ rpc = [k \in Routines |-> "off"]
    /\ saw = [k \in Routines |-> "none"]

NoReq == [endpoint |-> "none", url |-> <<>>, platform |-> "", lang |-> ""]

SrvOff ==
    /\ req = NoReq
    /\ loaded = [audit |-> TRUE, ux |-> TRUE, guarded |-> FALSE]
    /\ hpc = "off" /\ res = NoRes
    /\ DriverOff

\* The two require calls at the top of the server file. server.js makes
\* them unguarded: one that throws ends the process before app.listen, and
\* no request is ever received. part_002 makes them inside try/catch and
\* starts with whatever they loaded (loaded.guarded tells the two apart).
StartupThrows(l) == ~l.guarded /\ ~(l.audit /\ l.ux)

SrvInit ==
    /\ loaded \in [audit : BOOLEAN, ux : BOOLEAN, guarded : BOOLEAN]
    /\ IF StartupThrows(loaded)
       THEN req = NoReq /\ hpc = "down"
       ELSE /\ req \in { [endpoint |-> e, url |-> u, platform |-> p, lang |-> l] :
                          e \in Endpoints, u \in ReqUrls, p \in ReqPlatforms,
                          l \in ReqLangs }
            /\ req.endpoint \in {"/api/lighthouse", "/api/ux-audit"} =>
                    req.platform = NoParam
            /\ req.endpoint = "/health" =>
                    req.url = Undefined /\ req.platform = NoParam /\ req.lang = NoParam
            /\ req.endpoint = "pages/api/audit" =>
                    loaded.audit /\ loaded.ux /\ loaded.guarded
            /\ req.endpoint = "/api/ux-audit" => loaded.audit
            /\ hpc = "recv"
    /\ res = NoRes
    /\ DriverOff

driverVars == <<call, dpc, durl, browser, proc, launches, closes, closeErr,
                err, completion, page, rpc, saw>>
uxVars == <<page, rpc, saw>>

\* ValidLang with only an absent lang replaced by the default.
ValidLangDefaultOnly(lang) == IF lang = NoParam THEN "ru" ELSE lang

\* const validLang = (lang === 'en' || lang === 'ru') ? lang : 'ru';
ValidLang(lang) == IF lang = "en" \/ lang = "ru" THEN lang ELSE "ru"

\* const { platform = 'web' } = req.query;
PlatformOf(q) == IF q.platform = NoParam THEN "web" ELSE q.platform

Send(status, error, errLang, details) ==
    [NoRes EXCEPT !.status = status, !.error = error, !.errLang = errLang,
                  !.details = details, !.body = "error"]

Invoke(driver, url, platform, lang, at) ==
    /\ call' = [driver |-> driver, url |-> url, platform |-> platform, lang |-> lang]
    /\ durl' = url
    /\ dpc' = at
    /\ hpc' = "await"
    /\ UNCHANGED res

Reply(r) == res' = r /\ hpc' = "responded" /\ UNCHANGED <<call, durl, dpc>>

\* HandleAudit with the platform validated before the url.
HandleAuditPlatformFirst ==
    /\ hpc = "recv" /\ req.endpoint = "/api/audit"
    /\ LET validLang == ValidLang(req.lang)
           platform == PlatformOf(req)
       IN IF platform # "web" /\ platform # "mobile"
          THEN Reply(Send(400, "invalidPlatform", validLang, <<>>))
          ELSE IF Falsy(req.url)
          THEN Reply(Send(400, "missingUrlParameter", validLang, <<>>))
          ELSE IF ~loaded.audit
          THEN Reply(Send(503, "Audit service is not available", "literal",
                          <<"Module not loaded">>))
          ELSE Invoke("runAudit", normalizeUrl(req.url), platform, validLang, "a_require")
    /\ UNCHANGED <<req, loaded, browser, proc, launches, closes, closeErr, err,
                   completion, uxVars, pureVars>>

\* app.get('/api/audit', ...) up to `await runAudit(...)`
HandleAudit ==
    /\ hpc = "recv" /\ req.endpoint = "/api/audit"
    /\ LET validLang == ValidLang(req.lang)
           platform == PlatformOf(req)
       IN IF Falsy(req.url)
          THEN Reply(Send(400, "missingUrlParameter", validLang, <<>>))
          ELSE IF platform # "web" /\ platform # "mobile"
          THEN Reply(Send(400, "invalidPlatform", validLang, <<>>))
          ELSE IF ~loaded.audit
          THEN Reply(Send(503, "Audit service is not available", "literal",
                          <<"Module not loaded">>))
          ELSE Invoke("runAudit", normalizeUrl(req.url), platform, validLang, "a_require")
    /\ UNCHANGED <<req, loaded, browser, proc, launches, closes, closeErr, err,
                   completion, uxVars, pureVars>>

\* module.exports of pages/api/audit.js up to `await runAudit(url, platform)`:
\* ru.json is the only translation table, and the url is passed on as given.
HandlePagesAudit ==
    /\ hpc = "recv" /\ req.endpoint = "pages/api/audit"
    /\ LET platform == PlatformOf(req)
       IN IF Falsy(req.url)
          THEN Reply(Send(400, "missingUrl", "ru", <<>>))
          ELSE IF platform # "web" /\ platform # "mobile"
          THEN Reply(Send(400, "invalidPlatform", "ru", <<>>))
          ELSE Invoke("runAudit", req.url, platform, "ru", "a_require")
    /\ UNCHANGED <<req, loaded, browser, proc, launches, closes, closeErr, err,
                   completion, uxVars, pureVars>>

\* app.get('/api/lighthouse', ...) up to `await runLighthouse(...)`
HandleLighthouse ==
    /\ hpc = "recv" /\ req.endpoint = "/api/lighthouse"
    /\ IF Falsy(req.url)
       THEN Reply(Send(400, "URL parameter is required", "literal", <<>>))
       ELSE IF ~loaded.audit
       THEN Reply(Send(503, "Lighthouse service is not available", "literal",
                       <<"Module not loaded">>))
       ELSE Invoke("runLighthouse", normalizeUrl(req.url), "", ValidLang(req.lang),
                   "l_validate")
    /\ UNCHANGED <<req, loaded, browser, proc, launches, closes, closeErr, err,
                   completion, uxVars, pureVars>>

\* app.get('/api/ux-audit', ...) up to `await runUXAudit(...)`
HandleUXAudit ==
    /\ hpc = "recv" /\ req.endpoint = "/api/ux-audit"
    /\ IF Falsy(req.url)
       THEN Reply(Send(400, "URL parameter is required", "literal", <<>>))
       ELSE IF ~loaded.ux
       THEN Reply(Send(503, "UX audit service is not available", "literal",
                       <<"Module not loaded">>))
       ELSE Invoke("runUXAudit", normalizeUrl(req.url), "", ValidLang(req.lang),
                   "u_validate")
    /\ UNCHANGED <<req, loaded, browser, proc, launches, closes, closeErr, err,
                   completion, uxVars, pureVars>>

\* app.get('/health', ...)
HandleHealth ==
    /\ hpc = "recv" /\ req.endpoint = "/health"
    /\ Reply([NoRes EXCEPT !.status = 200, !.body = "health"])
    /\ UNCHANGED <<req, loaded, browser, proc, launches, closes, closeErr, err,
                   completion, uxVars, pureVars>>

\* Respond with the stack sent whenever NODE_ENV is not 'production'.
RespondStackUnlessProduction ==
    /\ hpc = "await" /\ dpc = "settled"
    /\ \E env \in NodeEnvs :
        res' =
          IF completion.kind = "return"
          THEN [NoRes EXCEPT !.status = 200, !.body = "report", !.url = durl,
                             !.nodeEnv = env]
          ELSE IF call.driver = "runAudit"
          THEN [Send(500, "auditFailed", call.lang, completion.msg)
                    EXCEPT !.nodeEnv = env]
          ELSE [Send(500, IF call.driver = "runLighthouse"
                          THEN "Lighthouse audit failed" ELSE "UX audit failed",
                     "literal", completion.msg)
                    EXCEPT !.stack = (env # "production"), !.nodeEnv = env]
    /\ hpc' = "responded"
    /\ UNCHANGED <<req, loaded, driverVars, pureVars>>

\* The handler after its await: res.status(200).json(result), or the catch
\* block's res.status(500).json(...); process.env.NODE_ENV is read here.
Respond ==
    /\ hpc = "await" /\ dpc = "settled"
    /\ \E env \in NodeEnvs :
        res' =
          IF completion.kind = "return"
          THEN [NoRes EXCEPT !.status = 200, !.body = "report", !.url = durl,
                             !.nodeEnv = env]
          ELSE IF call.driver = "runAudit"
          THEN [Send(500, "auditFailed", call.lang, completion.msg)
                    EXCEPT !.nodeEnv = env]
          ELSE [Send(500, IF call.driver = "runLighthouse"
                          THEN "Lighthouse audit failed" ELSE "UX audit failed",
                     "literal", completion.msg)
                    EXCEPT !.stack = (env = "development"), !.nodeEnv = env]
    /\ hpc' = "responded"
    /\ UNCHANGED <<req, loaded, driverVars, pureVars>>

(***************************************************************************)
(* runAudit (utils/audit.js, part_000): the mock scorer's control flow.    *)
(* The report it builds is modelled with MockReport below.                 *)
(***************************************************************************)
\* const translations = require(`../lang/${lang}.json`);
AuditRequire ==
    /\ dpc = "a_require"
    /\ \/ dpc' = "a_timer" /\ UNCHANGED completion
       \/ /\ completion' = [kind |-> "throw", msg |-> <<"Cannot find module">>]
          /\ dpc' = "settled"
    /\ UNCHANGED <<req, loaded, hpc, res, call, durl, browser, proc, launches,
                   closes, closeErr, err, uxVars, pureVars>>

\* setTimeout(() => { ... resolve({...}) }, 1000)
AuditTimer ==
    /\ dpc = "a_timer"
    /\ completion' = [kind |-> "return", msg |-> <<>>]
    /\ dpc' = "settled"
    /\ UNCHANGED <<req, loaded, hpc, res, call, durl, browser, proc, launches,
                   closes, closeErr, err, uxVars, pureVars>>

(***************************************************************************)
(* runLighthouse (utils/audit.js, part_000).                               *)
(***************************************************************************)
\* A throw inside the try block: control goes to the catch block.
Throw(msg, catch) == err' = msg /\ dpc' = catch

Goto(at) == dpc' = at /\ UNCHANGED err

\* LHValidate without the new URL(url) check.
LHValidateNoCheck ==
    /\ dpc = "l_validate"
    /\ durl' = normalizeUrl(durl)
    /\ Goto("l_importLauncher")
    /\ UNCHANGED <<req, loaded, hpc, res, call, browser, proc, launches, closes,
                   closeErr, completion, uxVars, pureVars>>

\* url = normalizeUrl(url); try { new URL(url) } catch { throw ... }
LHValidate ==
    /\ dpc = "l_validate"
    /\ durl' = normalizeUrl(durl)
    /\ IF URLParses(durl')
       THEN Goto("l_importLauncher")
       ELSE Throw(<<"Invalid URL format: ">> \o durl', "l_catch")
    /\ UNCHANGED <<req, loaded, hpc, res, call, browser, proc, launches, closes,
                   closeErr, completion, uxVars, pureVars>>

\* chromeLauncher = await import('chrome-launcher')
LHImportLauncher ==
    /\ dpc = "l_importLauncher"
    /\ \/ Goto("l_launch")
       \/ Throw(<<"Failed to import chrome-launcher: ", "<cause>">>, "l_catch")
    /\ UNCHANGED <<req, loaded, hpc, res, call, durl, browser, proc, launches,
                   closes, closeErr, completion, uxVars, pureVars>>

\* chrome = await chromeLauncher.default.launch({...}): it throws, or returns
\* nothing, or a chrome without a port, or a chrome listening on a port.
LHLaunch ==
    /\ dpc = "l_launch"
    /\ \/ /\ Throw(<<"Failed to launch Chrome: ", "<cause>">>, "l_catch")
          /\ UNCHANGED <<browser, proc, launches>>
       \/ /\ Goto("l_portCheck")
          /\ UNCHANGED <<browser, proc, launches>>
       \/ /\ Goto("l_portCheck")
          /\ browser' \in {"chrome", "chromeNoPort"}
          /\ proc' = "live"
          /\ launches' = launches + 1
    /\ UNCHANGED <<req, loaded, hpc, res, call, durl, closes, closeErr, completion,
                   uxVars, pureVars>>

\* if (!chrome || !chrome.port) throw ...
LHPortCheck ==
    /\ dpc = "l_portCheck"
    /\ IF browser # "chrome"
       THEN Throw(<<"Failed to launch Chrome instance - no port assigned">>, "l_catch")
       ELSE Goto("l_importLighthouse")
    /\ UNCHANGED <<req, loaded, hpc, res, call, durl, browser, proc, launches,
                   closes, closeErr, completion, uxVars, pureVars>>

\* lighthouse = await import('lighthouse')
LHImportLighthouse ==
    /\ dpc = "l_importLighthouse"
    /\ \/ Goto("l_run")
       \/ Throw(<<"Failed to import Lighthouse: ", "<cause>">>, "l_catch")
    /\ UNCHANGED <<req, loaded, hpc, res, call, durl, browser, proc, launches,
                   closes, closeErr, completion, uxVars, pureVars>>

\* runnerResult = await lighthouse.default(url, options), and the checks of
\* runnerResult.lhr and of lhr.categories that follow it.
LHRun ==
    /\ dpc = "l_run"
    /\ \/ Throw(<<"Lighthouse audit failed: ", "<cause>">>, "l_catch")
       \/ Throw(<<"Lighthouse returned invalid results">>, "l_catch")
       \/ Throw(<<"No categories found in Lighthouse results">>, "l_catch")
       \/ Goto("l_extract")
    /\ UNCHANGED <<req, loaded, hpc, res, call, durl, browser, proc, launches,
                   closes, closeErr, completion, uxVars, pureVars>>

\* The four extractCategoryDetails calls and the result object; a malformed
\* lhr (no audits table, say) makes them throw.
LHExtract ==
    /\ dpc = "l_extract"
    /\ \/ /\ completion' = [kind |-> "return", msg |-> <<>>]
          /\ Goto("l_finally")
       \/ /\ Throw(<<"<TypeError>">>, "l_catch")
          /\ UNCHANGED completion
    /\ UNCHANGED <<req, loaded, hpc, res, call, durl, browser, proc, launches,
                   closes, closeErr, uxVars, pureVars>>

\* catch (error) { throw new Error(`Lighthouse audit failed: ${error.message}`) }
LHCatch ==
    /\ dpc = "l_catch"
    /\ completion' = [kind |-> "throw", msg |-> <<"Lighthouse audit failed: ">> \o err]
    /\ dpc' = "l_finally"
    /\ UNCHANGED <<req, loaded, hpc, res, call, durl, browser, proc, launches,
                   closes, closeErr, err, uxVars, pureVars>>

\* A close or kill call: it returns and the process is gone, or it throws,
\* and then the process may or may not be gone.
CloseCall ==
    /\ closes' = closes + 1
    /\ \/ proc' = "closed" /\ UNCHANGED closeErr
       \/ proc' \in {"live", "closed"} /\ closeErr' = TRUE

\* Routine positions that are a page operation in flight (the rest are
\* "off", "wait" (a timer), "done" and "failed").
InPageOp == {"evaluate", "setMobile", "reload", "evaluate2", "setDesktop"}

\* When the browser goes away puppeteer rejects every pending page
\* operation at once (the connection's callbacks are rejected on close).
RejectPending ==
    rpc' = [k \in Routines |->
               IF proc' = "closed" /\ rpc[k] \in InPageOp THEN "failed" ELSE rpc[k]]

\* LHFinally with `if (chrome && chrome.port)` for `if (chrome)`.
LHFinallyPortOnly ==
    /\ dpc = "l_finally"
    /\ IF browser = "chrome" THEN CloseCall ELSE UNCHANGED <<closes, proc, closeErr>>
    /\ dpc' = "settled"
    /\ UNCHANGED <<req, loaded, hpc, res, call, durl, browser, launches, err,
                   completion, uxVars, pureVars>>

\* finally { if (chrome) { try { await chrome.kill() } catch (killError) {} } }
LHFinally ==
    /\ dpc = "l_finally"
    /\ IF browser # "null" THEN CloseCall ELSE UNCHANGED <<closes, proc, closeErr>>
    /\ dpc' = "settled"
    /\ UNCHANGED <<req, loaded, hpc, res, call, durl, browser, launches, err,
                   completion, uxVars, pureVars>>

(***************************************************************************)
(* runUXAudit (utils/ux-audit.js).                                         *)
(***************************************************************************)
\* UXValidate without the new URL(url) check.
UXValidateNoCheck ==
    /\ dpc = "u_validate"
    /\ durl' = normalizeUrl(durl)
    /\ Goto("u_launch")
    /\ UNCHANGED <<req, loaded, hpc, res, call, browser, proc, launches, closes,
                   closeErr, completion, uxVars, pureVars>>

\* url = normalizeUrl(url); try { new URL(url) } catch { throw ... }
UXValidate ==
    /\ dpc = "u_validate"
    /\ durl' = normalizeUrl(durl)
    /\ IF URLParses(durl')
       THEN Goto("u_launch")
       ELSE Throw(<<"Invalid URL format: ">> \o durl', "u_catch")
    /\ UNCHANGED <<req, loaded, hpc, res, call, browser, proc, launches, closes,
                   closeErr, completion, uxVars, pureVars>>

\* browser = await puppeteer.launch({...})
UXLaunch ==
    /\ dpc = "u_launch"
    /\ \/ /\ Throw(<<"<launch error>">>, "u_catch")
          /\ UNCHANGED <<browser, proc, launches>>
       \/ /\ Goto("u_newPage")
          /\ browser' = "browser"
          /\ proc' = "live"
          /\ launches' = launches + 1
    /\ UNCHANGED <<req, loaded, hpc, res, call, durl, closes, closeErr,
                   completion, uxVars, pureVars>>

\* const page = await browser.newPage()
UXNewPage ==
    /\ dpc = "u_newPage"
    /\ \/ /\ Goto("u_setViewport")
          /\ page' = [viewport |-> "default", doc |-> "about:blank"]
       \/ Throw(<<"<newPage error>">>, "u_catch") /\ UNCHANGED page
    /\ UNCHANGED <<req, loaded, hpc, res, call, durl, browser, proc, launches,
                   closes, closeErr, completion, rpc, saw, pureVars>>

\* await page.setViewport({ width: 1920, height: 1080 })
UXSetViewport ==
    /\ dpc = "u_setViewport"
    /\ \/ /\ Goto("u_goto")
          /\ page' = [page EXCEPT !.viewport = Desktop]
       \/ Throw(<<"<setViewport error>">>, "u_catch") /\ UNCHANGED page
    /\ UNCHANGED <<req, loaded, hpc, res, call, durl, browser, proc, launches,
                   closes, closeErr, completion, rpc, saw, pureVars>>

\* await page.goto(url, { waitUntil: 'networkidle2', timeout: 30000 })
UXGoto ==
    /\ dpc = "u_goto"
    /\ \/ /\ Goto("u_wait")
          /\ page' = [page EXCEPT !.doc = "loaded"]
       \/ Throw(<<"<navigation error>">>, "u_catch") /\ UNCHANGED page
    /\ UNCHANGED <<req, loaded, hpc, res, call, durl, browser, proc, launches,
                   closes, closeErr, completion, rpc, saw, pureVars>>

\* await wait(2000), then the six calls inside Promise.all([...]): each
\* routine runs up to its first await, its page.evaluate then in flight.
UXChecks ==
    /\ dpc = "u_wait"
    /\ rpc' = [k \in Routines |-> "evaluate"]
    /\ Goto("u_awaitAll")
    /\ UNCHANGED <<req, loaded, hpc, res, call, durl, browser, proc, launches,
                   closes, closeErr, completion, page, saw, pureVars>>

\* A page operation of routine k: it acts on the page and the routine moves
\* on, or it rejects and the routine's promise rejects. Once the browser
\* process is gone every page operation rejects.
PageOp(k, next, newPage) ==
    \/ /\ proc = "live"
       /\ rpc' = [rpc EXCEPT ![k] = next]
       /\ page' = newPage
    \/ /\ rpc' = [rpc EXCEPT ![k] = "failed"]
       /\ UNCHANGED page

\* The one page.evaluate of checkVisualHierarchy, checkNavigation,
\* checkTypography, checkInteractivity and checkAccessibility, and what
\* follows it (the issues and the score are computed from its result).
Evaluate(k) ==
    /\ k # "mobileAdaptation"
    /\ rpc[k] = "evaluate"
    /\ PageOp(k, "done", page)
    /\ saw' = [saw EXCEPT ![k] = IF rpc'[k] = "done" THEN Observed(page) ELSE @]
    /\ UNCHANGED <<req, loaded, hpc, res, call, dpc, durl, browser, proc, launches,
                   closes, closeErr, err, completion, pureVars>>

\* checkMobileAdaptation: const mobileData = await page.evaluate(...)
MobileEvaluate ==
    /\ rpc["mobileAdaptation"] = "evaluate"
    /\ PageOp("mobileAdaptation", "setMobile", page)
    /\ saw' = [saw EXCEPT !["mobileAdaptation"] =
                   IF rpc'["mobileAdaptation"] = "setMobile"
                   THEN Observed(page) ELSE @]
    /\ UNCHANGED <<req, loaded, hpc, res, call, dpc, durl, browser, proc, launches,
                   closes, closeErr, err, completion, pureVars>>

\* await page.setViewport({ width: 375, height: 667 })
MobileSetViewport ==
    /\ rpc["mobileAdaptation"] = "setMobile"
    /\ PageOp("mobileAdaptation", "reload", [page EXCEPT !.viewport = Mobile])
    /\ UNCHANGED <<req, loaded, hpc, res, call, dpc, durl, browser, proc, launches,
                   closes, closeErr, err, completion, saw, pureVars>>

\* await page.reload({ waitUntil: 'networkidle2' })
MobileReload ==
    /\ rpc["mobileAdaptation"] = "reload"
    /\ PageOp("mobileAdaptation", "wait", [page EXCEPT !.doc = "reloaded"])
    /\ UNCHANGED <<req, loaded, hpc, res, call, dpc, durl, browser, proc, launches,
                   closes, closeErr, err, completion, saw, pureVars>>

\* await wait(1000)
MobileWait ==
    /\ rpc["mobileAdaptation"] = "wait"
    /\ rpc' = [rpc EXCEPT !["mobileAdaptation"] = "evaluate2"]
    /\ UNCHANGED <<req, loaded, hpc, res, call, dpc, durl, browser, proc, launches,
                   closes, closeErr, err, completion, page, saw, pureVars>>

\* const mobileViewportData = await page.evaluate(...)
MobileEvaluate2 ==
    /\ rpc["mobileAdaptation"] = "evaluate2"
    /\ PageOp("mobileAdaptation", "setDesktop", page)
    /\ UNCHANGED <<req, loaded, hpc, res, call, dpc, durl, browser, proc, launches,
                   closes, closeErr, err, completion, saw, pureVars>>

\* await page.setViewport({ width: 1920, height: 1080 }); return {...}
MobileReset ==
    /\ rpc["mobileAdaptation"] = "setDesktop"
    /\ PageOp("mobileAdaptation", "done", [page EXCEPT !.viewport = Desktop])
    /\ UNCHANGED <<req, loaded, hpc, res, call, dpc, durl, browser, proc, launches,
                   closes, closeErr, err, completion, saw, pureVars>>

\* UXAwaitAll waiting for the six to settle and going on whatever they did
\* (Promise.allSettled for Promise.all).
UXAwaitAllSettled ==
    /\ dpc = "u_awaitAll"
    /\ \A k \in Routines : rpc[k] \in {"done", "failed"}
    /\ Goto("u_result")
    /\ UNCHANGED <<req, loaded, hpc, res, call, durl, browser, proc, launches,
                   closes, closeErr, completion, uxVars, pureVars>>

\* await Promise.all([...]): rejects as soon as one routine has rejected,
\* resolves once all six have resolved.
UXAwaitAll ==
    /\ dpc = "u_awaitAll"
    /\ \/ /\ \E k \in Routines : rpc[k] = "failed"
          /\ Throw(<<"<check error>">>, "u_catch")
       \/ /\ \A k \in Routines : rpc[k] = "done"
          /\ Goto("u_result")
    /\ UNCHANGED <<req, loaded, hpc, res, call, durl, browser, proc, launches,
                   closes, closeErr, completion, uxVars, pureVars>>

\* const result = {...}; result.summary = {...}; return result
UXResult ==
    /\ dpc = "u_result"
    /\ completion' = [kind |-> "return", msg |-> <<>>]
    /\ dpc' = "u_finally"
    /\ UNCHANGED <<req, loaded, hpc, res, call, durl, browser, proc, launches,
                   closes, closeErr, err, uxVars, pureVars>>

\* catch (error) { throw new Error(`UX audit failed: ${error.message}`) }
UXCatch ==
    /\ dpc = "u_catch"
    /\ completion' = [kind |-> "throw", msg |-> <<"UX audit failed: ">> \o err]
    /\ dpc' = "u_finally"
    /\ UNCHANGED <<req, loaded, hpc, res, call, durl, browser, proc, launches,
                   closes, closeErr, err, uxVars, pureVars>>

\* UXFinally with browser.close() called but not awaited: the driver's
\* promise settles while the close is still to run.
UXFinallyNoAwait ==
    /\ dpc = "u_finally"
    /\ dpc' = "settled"
    /\ UNCHANGED <<req, loaded, hpc, res, call, durl, browser, proc, launches, closes,
                   closeErr, err, completion, uxVars, pureVars>>

\* UXFinally without the try/catch around browser.close(): a close that
\* throws replaces the outcome of the try block.
UXFinallyCloseThrows ==
    /\ dpc = "u_finally"
    /\ IF browser # "null" THEN CloseCall ELSE UNCHANGED <<closes, proc, closeErr>>
    /\ RejectPending
    /\ completion' = IF closeErr' THEN [kind |-> "throw", msg |-> <<"<close error>">>]
                                  ELSE completion
    /\ dpc' = "settled"
    /\ UNCHANGED <<req, loaded, hpc, res, call, durl, browser, launches, err,
                   page, saw, pureVars>>

\* finally { if (browser) { try { await browser.close() } catch (closeError) {} } }
UXFinally ==
    /\ dpc = "u_finally"
    /\ IF browser # "null" THEN CloseCall ELSE UNCHANGED <<closes, proc, closeErr>>
    /\ RejectPending
    /\ dpc' = "settled"
    /\ UNCHANGED <<req, loaded, hpc, res, call, durl, browser, launches, err,
                   completion, page, saw, pureVars>>

SrvNext ==
    \/ HandleAudit \/ HandlePagesAudit \/ HandleLighthouse \/ HandleUXAudit
    \/ HandleHealth
    \/ Respond
    \/ AuditRequire \/ AuditTimer
    \/ LHValidate \/ LHImportLauncher \/ LHLaunch \/ LHPortCheck
    \/ LHImportLighthouse \/ LHRun \/ LHExtract \/ LHCatch \/ LHFinally
    \/ UXValidate \/ UXLaunch \/ UXNewPage \/ UXSetViewport \/ UXGoto
    \/ UXChecks \/ UXAwaitAll \/ UXResult \/ UXCatch \/ UXFinally
    \/ \E k \in Routines : Evaluate(k)
    \/ MobileEvaluate \/ MobileSetViewport \/ MobileReload \/ MobileWait
    \/ MobileEvaluate2 \/ MobileReset

Init ==
    /\ SrvInit
    /\ NormOff /\ ScoreOff /\ LHOff /\ ReportOff /\ ConcOff

Spec == Init /\ [][SrvNext]_vars


(***************************************************************************)
(* The six inspection routines of utils/ux-audit.js, from the data their   *)
(* page.evaluate calls return to the issues and the score they return.     *)
(* Sizes are px, the line-height ratio is in hundredths.                   *)
(***************************************************************************)
MaxCount == 2      \* largest element count a page reports
NaN == -1          \* parseFloat of a value that is not a number

Max(a, b) == IF a >= b THEN a ELSE b

AppendIf(s, cond, x) == IF cond THEN Append(s, x) ELSE s

\* The penalty for one issue: 20 in checkNavigation and checkAccessibility,
\* 25 in the other four.
PenaltyAlways25(routine) == 25

Penalty(routine) ==
    IF routine \in {"navigation", "accessibility"} THEN 20 ELSE 25

\* const score = issues.length === 0 ? 100 : Math.max(0, 100 - (issues.length * w));
Score(issues, routine) ==
    IF Len(issues) = 0 THEN 100 ELSE Max(0, 100 - Len(issues) * Penalty(routine))

Returned(issues, routine) == [issues |-> issues, score |-> Score(issues, routine)]

\* hasNoH1 and hasMultipleH1 are h1Count === 0 and h1Count > 1.
checkVisualHierarchy(d) ==
    LET i1 == AppendIf(<<>>, d.h1Count = 0, "noH1")
        i2 == AppendIf(i1, d.h1Count > 1, "multipleH1")
        i3 == AppendIf(i2, ~d.hasCTA, "noCTA")
    IN Returned(i3, "visualHierarchy")

checkNavigation(d) ==
    LET i1 == AppendIf(<<>>, ~d.hasMainNav, "noMainNav")
        i2 == AppendIf(i1, d.navLinksCount = 0, "noNavLinks")
        i3 == AppendIf(i2, ~d.isSticky /\ d.hasMainNav, "notSticky")
    IN Returned(i3, "navigation")

\* A size that is 0 or NaN is replaced: 16 for the font, 1.5 for the ratio.
checkTypography(d) ==
    LET bodyFontSize == IF d.bodyFontSize # 0 /\ d.bodyFontSize # NaN
                        THEN d.bodyFontSize ELSE 16
        lineHeightRatio == IF d.lineHeightRatio # 0 /\ d.lineHeightRatio # NaN
                           THEN d.lineHeightRatio ELSE 150
        i1 == AppendIf(<<>>, bodyFontSize < 14, "fontTooSmall")
        i2 == AppendIf(i1, lineHeightRatio < 140, "lineHeightTooSmall")
        i3 == AppendIf(i2, d.smallTextCount > 5, "smallText")
    IN Returned(i3, "typography")

checkInteractivity(d) ==
    LET i1 == AppendIf(<<>>, d.smallButtonsCount > 0, "smallButtons")
        i2 == AppendIf(i1, ~d.hasHoverStyles /\ d.totalButtons > 0, "noHover")
        i3 == AppendIf(i2, ~d.hasFocusStyles, "noFocus")
    IN Returned(i3, "interactivity")

checkMobileAdaptation(d) ==
    LET i1 == AppendIf(<<>>, ~d.hasViewport, "noViewportMeta")
        i2 == AppendIf(i1, d.mobileScroll, "horizontalScroll")
        i3 == AppendIf(i2, ~d.hasHamburger /\ d.hasMediaQueries, "noHamburger")
    IN Returned(i3, "mobileAdaptation")

checkAccessibility(d) ==
    LET i1 == AppendIf(<<>>, d.imagesWithoutAlt > 0, "imagesWithoutAlt")
        i2 == AppendIf(i1, ~d.hasMain, "noMain")
        i3 == AppendIf(i2, d.inputsWithoutLabels > 0 /\ d.totalInputs > 0,
                       "inputsWithoutLabels")
        i4 == AppendIf(i3, d.elementsWithoutAria > 5, "noAria")
    IN Returned(i4, "accessibility")

\* What the in-page scripts can return.
Counts == 0..MaxCount
Sizes == {NaN, 0, 13, 14, 16}
Ratios == {NaN, 0, 139, 140, 150}
Around5 == {0, 5, 6}

VisualData == [h1Count : Counts, hasCTA : BOOLEAN]
NavigationData ==
    { d \in [hasMainNav : BOOLEAN, isSticky : BOOLEAN, navLinksCount : Counts] :
        ~d.hasMainNav => d.navLinksCount = 0 }
TypographyData ==
    [bodyFontSize : Sizes, lineHeightRatio : Ratios, smallTextCount : Around5]
InteractivityData ==
    { d \in [totalButtons : Counts, smallButtonsCount : Counts,
             hasHoverStyles : BOOLEAN, hasFocusStyles : BOOLEAN] :
        d.smallButtonsCount <= d.totalButtons }
MobileData ==
    [hasViewport : BOOLEAN, hasMediaQueries : BOOLEAN, hasHamburger : BOOLEAN,
     mobileScroll : BOOLEAN]
AccessibilityData ==
    { d \in [imagesWithoutAlt : Counts, hasMain : BOOLEAN, totalInputs : Counts,
             inputsWithoutLabels : Counts, elementsWithoutAria : Around5] :
        d.inputsWithoutLabels <= d.totalInputs }

DataOf(routine) ==
    CASE routine = "visualHierarchy" -> VisualData
      [] routine = "navigation" -> NavigationData
      [] routine = "typography" -> TypographyData
      [] routine = "interactivity" -> InteractivityData
      [] routine = "mobileAdaptation" -> MobileData
      [] routine = "accessibility" -> AccessibilityData

NotChecked == [issues |-> <<>>, score |-> NaN]

ScoreInit ==
    /\ \E k \in Routines : \E d \in DataOf(k) : check = [routine |-> k, data |-> d]
    /\ checked = NotChecked
    /\ NormOff /\ LHOff /\ ReportOff /\ ConcOff /\ SrvOff

RunCheck(k, result) ==
    /\ check.routine = k /\ checked = NotChecked
    /\ checked' = result
    /\ UNCHANGED <<check, normVars, lhVars, reportVars, concVars, srvVars>>

CheckVisualHierarchy == RunCheck("visualHierarchy", checkVisualHierarchy(check.data))
CheckNavigation == RunCheck("navigation", checkNavigation(check.data))
CheckTypography == RunCheck("typography", checkTypography(check.data))
CheckInteractivity == RunCheck("interactivity", checkInteractivity(check.data))
CheckMobileAdaptation == RunCheck("mobileAdaptation", checkMobileAdaptation(check.data))
CheckAccessibility == RunCheck("accessibility", checkAccessibility(check.data))

ScoreNext ==
    \/ CheckVisualHierarchy \/ CheckNavigation \/ CheckTypography
    \/ CheckInteractivity \/ CheckMobileAdaptation \/ CheckAccessibility

SpecScore == ScoreInit /\ [][ScoreNext]_vars

(***************************************************************************)
(* C6: each routine returns the score max(0, 100 - w * n) for the n issues *)
(* it returns, with w = 20 for navigation and accessibility and w = 25 for *)
(* the other four; the score is an integer in [0,100]; and over the issue  *)
(* counts a routine produces the score is strictly decreasing in n: one    *)
(* more issue always costs points, the floor at 0 is never what is         *)
(* returned for n - 1 issues.                                              *)
(***************************************************************************)
Weight(routine) ==
    CASE routine = "navigation" -> 20
      [] routine = "accessibility" -> 20
      [] OTHER -> 25

Linear(w, n) == IF 100 - w * n > 0 THEN 100 - w * n ELSE 0

ScoreIsLinearPenalty ==
    checked # NotChecked =>
        LET n == Len(checked.issues)
            w == Weight(check.routine)
        IN /\ checked.score = Linear(w, n)
           /\ checked.score \in 0..100
           /\ n > 0 => checked.score < Linear(w, n - 1)

\* checkAccessibility with all four of its triggers: 4 issues, score 20.
ScoreIsLinearPenaltyWitness ==
    /\ check.routine = "accessibility"
    /\ Len(checked.issues) = 4 /\ checked.score = 20

(***************************************************************************)
(* extractCategoryDetails of runLighthouse (utils/audit.js, part_000).     *)
(* A raw audit score is null or a number of thousandths, 0..1000 for       *)
(* 0..1; an audit's detail items are numbered 1..n.                        *)
(***************************************************************************)
MaxRefs == 2       \* longest auditRefs list of a category
Null == -2         \* JavaScript null

Min(a, b) == IF a <= b THEN a ELSE b

\* Math.round(score * 100) in IEEE doubles: half rounds up, and the four
\* products that fall just short of a half in floating point round down
\* (0.145 * 100 is 14.499999999999998).
RoundPercent(t) ==
    IF t \in {145, 285, 565, 575} THEN (t + 5) \div 10 - 1 ELSE (t + 5) \div 10

\* const isFailing = score !== null && score < 1;
IsFailing(score) == score # Null /\ score < 1000

\* IssueOf with every item attached (no slice(0, 5)).
IssueOfAllItems(id, audit) ==
    LET score == IF audit.score # Null THEN RoundPercent(audit.score) ELSE Null
    IN IF audit.hasDetails /\ audit.nItems > 0
       THEN [id |-> id, score |-> score,
             items |-> [i \in 1..audit.nItems |-> i],
             itemsCount |-> audit.nItems]
       ELSE [id |-> id, score |-> score]

\* The issue built from one failing audit: id, score and, when the audit
\* has detail items, issue.items (at most 5 of them) and issue.itemsCount;
\* an issue of an audit without items has neither field.
IssueOf(id, audit) ==
    LET score == IF audit.score # Null THEN RoundPercent(audit.score) ELSE Null
    IN IF audit.hasDetails /\ audit.nItems > 0
       THEN [id |-> id, score |-> score,
             items |-> [i \in 1..Min(5, audit.nItems) |-> i],
             itemsCount |-> audit.nItems]
       ELSE [id |-> id, score |-> score]

\* Collect without the skip of numeric metrics.
RECURSIVE CollectWithNumeric(_, _)
CollectWithNumeric(audits, refs) ==
    IF refs = <<>> THEN <<>>
    ELSE LET id == Head(refs)
             rest == CollectWithNumeric(audits, Tail(refs))
         IN IF id \notin DOMAIN audits THEN rest
            ELSE IF IsFailing(audits[id].score)
                 THEN <<IssueOf(id, audits[id])>> \o rest
                 ELSE rest

\* categoryData.auditRefs.forEach(...): the issues pushed, in auditRefs order.
RECURSIVE Collect(_, _)
Collect(audits, refs) ==
    IF refs = <<>> THEN <<>>
    ELSE LET id == Head(refs)
             rest == Collect(audits, Tail(refs))
         IN IF id \notin DOMAIN audits THEN rest
            ELSE IF audits[id].scoreDisplayMode = "numeric" THEN rest
            ELSE IF IsFailing(audits[id].score)
                 THEN <<IssueOf(id, audits[id])>> \o rest
                 ELSE rest

\* The comparator handed to issues.sort.
Compare(a, b) ==
    IF a.score # Null /\ b.score # Null THEN a.score - b.score
    ELSE IF a.score = Null THEN 1
    ELSE IF b.score = Null THEN 0 - 1
    ELSE 0

\* Array.prototype.sort is stable: x goes before the first element it
\* compares less than.
RECURSIVE Insert(_, _)
Insert(sorted, x) ==
    IF sorted = <<>> THEN <<x>>
    ELSE IF Compare(x, Head(sorted)) < 0 THEN <<x>> \o sorted
    ELSE <<Head(sorted)>> \o Insert(Tail(sorted), x)

\* SortIssues leaving the list as pushed.
SortIssuesUnsorted(issues) == issues

RECURSIVE SortIssues(_)
SortIssues(issues) ==
    IF issues = <<>> THEN <<>>
    ELSE Insert(SortIssues(SubSeq(issues, 1, Len(issues) - 1)), issues[Len(issues)])

extractCategoryDetails(audits, categoryData) ==
    IF ~categoryData.hasAuditRefs THEN <<>>
    ELSE SortIssues(Collect(audits, categoryData.auditRefs))

\* Audits as Lighthouse reports them.
AuditsWith(scores, itemCounts) ==
    { a \in [scoreDisplayMode : {"binary", "numeric"}, score : scores,
             hasDetails : BOOLEAN, nItems : itemCounts] :
        ~a.hasDetails => a.nItems = 0 }

\* One audit, every raw score of the grid, referenced up to MaxRefs times.
LHScoreInit ==
    /\ \E a \in AuditsWith({Null} \cup 0..1000, {0}) :
       \E n \in 0..MaxRefs :
            lhr = [audits |-> [id \in {"a"} |-> a],
                   category |-> [hasAuditRefs |-> TRUE,
                                 auditRefs |-> [i \in 1..n |-> "a"]]]
    /\ lissues = <<>> /\ lpc = "call"
    /\ NormOff /\ ScoreOff /\ ReportOff /\ ConcOff /\ SrvOff

ExtractCategoryDetails ==
    /\ lpc = "call"
    /\ lissues' = extractCategoryDetails(lhr.audits, lhr.category)
    /\ lpc' = "ret"
    /\ UNCHANGED <<lhr, normVars, scoreVars, reportVars, concVars, srvVars>>

LHNext == ExtractCategoryDetails

SpecLHScore == LHScoreInit /\ [][LHNext]_vars

(***************************************************************************)
(* C4 as claimed: every issue extractCategoryDetails returns has a score   *)
(* that is null or strictly less than 100, for every raw score in [0,1].   *)
(***************************************************************************)
IssueScoresBelow100 ==
    lpc = "ret" =>
        \A i \in 1..Len(lissues) : lissues[i].score = Null \/ lissues[i].score < 100

(***************************************************************************)
(* extractCategoryDetails on a category that references several audits:    *)
(* audit a with any number of detail items, audit b, and z, an id          *)
(* Lighthouse has no audit for.                                            *)
(***************************************************************************)
MaxItems == 6      \* most detail items an audit has

ListScores == {Null, 0, 500, 1000}
RefIds == {"a", "b", "z"}

LHListInit ==
    /\ \E a \in AuditsWith(ListScores, 0..MaxItems), b \in AuditsWith(ListScores, {0}),
          refs \in SeqsUpTo(RefIds, MaxRefs), has \in BOOLEAN :
            lhr = [audits |-> [id \in {"a", "b"} |-> IF id = "a" THEN a ELSE b],
                   category |-> [hasAuditRefs |-> has, auditRefs |-> refs]]
    /\ lissues = <<>> /\ lpc = "call"
    /\ NormOff /\ ScoreOff /\ ReportOff /\ ConcOff /\ SrvOff

SpecLHList == LHListInit /\ [][LHNext]_vars

(***************************************************************************)
(* C17: the issue list of a category holds one issue per audit reference   *)
(* whose audit exists, is not of display mode 'numeric' and has a non-null *)
(* raw score below 1, and nothing else.                                    *)
(***************************************************************************)
Qualifies(id) ==
    /\ id \in DOMAIN lhr.audits
    /\ lhr.audits[id].scoreDisplayMode # "numeric"
    /\ lhr.audits[id].score # Null
    /\ lhr.audits[id].score < 1000

References(id) ==
    IF lhr.category.hasAuditRefs
    THEN Cardinality({i \in 1..Len(lhr.category.auditRefs) : lhr.category.auditRefs[i] = id})
    ELSE 0

IssuesAreFailingRefs ==
    lpc = "ret" =>
        /\ \A i \in 1..Len(lissues) : lissues[i].id \in RefIds
        /\ \A id \in RefIds :
              Cardinality({i \in 1..Len(lissues) : lissues[i].id = id}) =
                    IF Qualifies(id) THEN References(id) ELSE 0

\* a fails, b is a numeric metric that fails too, z does not exist: the
\* list holds a, once per reference.
IssuesAreFailingRefsWitness ==
    /\ lpc = "ret"
    /\ lhr.category.auditRefs = <<"a", "b">>
    /\ lhr.category.hasAuditRefs
    /\ lhr.audits["b"].scoreDisplayMode = "numeric" /\ lhr.audits["b"].score = 0
    /\ Len(lissues) = 1 /\ lissues[1].id = "a"

(***************************************************************************)
(* C18: in a category's list the issues come in non-decreasing order of    *)
(* score, and an issue whose score is null comes after every issue with a  *)
(* numeric score.                                                          *)
(***************************************************************************)
IssuesWorstFirst ==
    lpc = "ret" =>
        \A i, j \in 1..Len(lissues) :
            i < j =>
                /\ (lissues[i].score # Null /\ lissues[j].score # Null) =>
                        lissues[i].score <= lissues[j].score
                /\ lissues[i].score = Null => lissues[j].score = Null

\* b (score 50) is referenced before a (score 0): the list starts with a.
IssuesWorstFirstWitness ==
    /\ lpc = "ret"
    /\ Len(lhr.category.auditRefs) >= 2
    /\ lhr.category.auditRefs[1] = "b" /\ lhr.category.auditRefs[2] = "a"
    /\ Len(lissues) >= 2
    /\ lissues[1].id = "a" /\ lissues[1].score = 0
    /\ lissues[2].id = "b" /\ lissues[2].score = 50

(***************************************************************************)
(* C19: an issue built from an audit with n >= 1 detail items carries the  *)
(* first min(5, n) items in their order and itemsCount = n; an issue of an *)
(* audit without items (n = 0, or no details) carries neither field.       *)
(***************************************************************************)
ItemsCappedAtFive ==
    lpc = "ret" =>
        \A i \in 1..Len(lissues) :
            LET audit == lhr.audits[lissues[i].id]
                n == IF audit.hasDetails THEN audit.nItems ELSE 0
            IN IF n >= 1
               THEN /\ {"items", "itemsCount"} \subseteq DOMAIN lissues[i]
                    /\ lissues[i].itemsCount = n
                    /\ Len(lissues[i].items) = (IF n < 5 THEN n ELSE 5)
                    /\ \A k \in 1..Len(lissues[i].items) : lissues[i].items[k] = k
               ELSE {"items", "itemsCount"} \cap DOMAIN lissues[i] = {}

\* An audit with 6 items: 5 attached, itemsCount 6.
ItemsCappedAtFiveWitness ==
    /\ lpc = "ret" /\ Len(lissues) >= 1
    /\ lissues[1].id = "a" /\ "items" \in DOMAIN lissues[1]
    /\ Len(lissues[1].items) = 5 /\ lissues[1].itemsCount = 6

\* An audit with details and no items: neither field.
ItemsCappedAtFiveWitnessNone ==
    /\ lpc = "ret" /\ Len(lissues) >= 1
    /\ lissues[1].id = "a" /\ lhr.audits["a"].hasDetails
    /\ DOMAIN lissues[1] = {"id", "score"}

(***************************************************************************)
(* What "trimmed" and "begins with http:// or https://" mean, spelled out  *)
(* without the operators normalizeUrl is computed with.                    *)
(***************************************************************************)
\* The trimmed value, read off the input without the model's Trim: the
\* longest run that neither starts nor ends with whitespace.
IsTrimOf(t, s) ==
    \E i \in 0..Len(s), j \in 0..Len(s) :
        /\ i + j <= Len(s) \/ (i = Len(s) /\ j = 0)
        /\ \A k \in 1..i : s[k] \in WhiteSpace
        /\ \A k \in (Len(s) - j + 1)..Len(s) : s[k] \in WhiteSpace
        /\ t = SubSeq(s, i + 1, Len(s) - j)
        /\ (t # <<>> => t[1] \notin WhiteSpace /\ t[Len(t)] \notin WhiteSpace)

\* "begins with http:// or https:// in any letter case", spelled out.
HasHttpScheme(t) ==
    /\ Len(t) >= 7
    /\ t[1] \in {"h", "H"} /\ t[2] \in {"t", "T"}
    /\ t[3] \in {"t", "T"} /\ t[4] \in {"p", "P"}
    /\ \/ t[5] = ":" /\ t[6] = "/" /\ t[7] = "/"
       \/ /\ Len(t) >= 8 /\ t[5] \in {"s", "S"}
          /\ t[6] = ":" /\ t[7] = "/" /\ t[8] = "/"

(***************************************************************************)
(* The reports the three drivers return.                                   *)
(***************************************************************************)
\* results.reduce((sum, r) => sum + r.issues.length, 0)
RECURSIVE TotalIssues(_)
TotalIssues(criteria) ==
    IF criteria = <<>> THEN 0
    ELSE Len(Head(criteria).issues) + TotalIssues(Tail(criteria))

\* results.filter(r => r.issues.length > 0).length
RECURSIVE CriteriaWithIssues(_)
CriteriaWithIssues(criteria) ==
    IF criteria = <<>> THEN 0
    ELSE (IF Len(Head(criteria).issues) > 0 THEN 1 ELSE 0)
            + CriteriaWithIssues(Tail(criteria))

\* result.criteria.reduce((sum, c) => sum + (c.score || 0), 0)
RECURSIVE SumScores(_)
SumScores(criteria) ==
    IF criteria = <<>> THEN 0
    ELSE Head(criteria).score + SumScores(Tail(criteria))

\* An entry of translations.issues / translations.criteria of lang/<lang>.json.
Translate(lang, key) == <<lang, key>>

\* allIssues of runAudit: the candidate pool of each criterion.
MockCriteria ==
    <<"Layout & Structure", "Navigation", "Typography & Readability",
      "Accessibility", "Mobile-specific", "Visual hierarchy">>

OnlyFor(platform, wanted, key) == IF platform = wanted THEN <<key>> ELSE <<>>

AllIssues(platform, criterion) ==
    CASE criterion = "Layout & Structure" ->
            OnlyFor(platform, "web", "contentWidthExceeds")
            \o OnlyFor(platform, "mobile", "horizontalScrolling")
            \o <<"inconsistentSpacing">>
      [] criterion = "Navigation" ->
            OnlyFor(platform, "web", "noStickyHeader")
            \o OnlyFor(platform, "mobile", "hamburgerMenuMissing")
            \o <<"confusingHierarchy">>
      [] criterion = "Typography & Readability" ->
            OnlyFor(platform, "web", "fontSizeTooSmall")
            \o OnlyFor(platform, "mobile", "poorReadability")
            \o <<"insufficientLineSpacing">>
      [] criterion = "Accessibility" ->
            <<"missingAltText", "lowContrast", "noKeyboardNav">>
      [] criterion = "Mobile-specific" ->
            IF platform = "mobile"
            THEN <<"tapTargetsTooSmall", "viewportMissing", "noResponsiveLayout">>
            ELSE <<>>
      [] criterion = "Visual hierarchy" ->
            <<"inconsistentHeadings", "noClearCTA", "overuseOfBold">>

\* FilterCriteria without the filter.
FilterCriteriaNone(platform, cs) == cs

\* Object.keys(allIssues).filter(...): Mobile-specific only for mobile.
RECURSIVE FilterCriteria(_, _)
FilterCriteria(platform, cs) ==
    IF cs = <<>> THEN <<>>
    ELSE IF Head(cs) = "Mobile-specific" /\ platform # "mobile"
         THEN FilterCriteria(platform, Tail(cs))
         ELSE <<Head(cs)>> \o FilterCriteria(platform, Tail(cs))

\* Math.random() < 0.3 ? 0 : Math.min(Math.floor(Math.random() * 2) + 1, length)
NumIssues(below03, floor2, length) ==
    IF below03 THEN 0 ELSE Min(floor2 + 1, length)

\* possibleIssues.sort(() => Math.random() - 0.5): some order of the pool.
Orders(pool) ==
    { p \in [1..Len(pool) -> 1..Len(pool)] :
        \A i, j \in 1..Len(pool) : i # j => p[i] # p[j] }

\* The selections .sort(...).slice(0, numIssues) can make from a pool.
Selections(pool) ==
    { [i \in 1..NumIssues(below03, floor2, Len(pool)) |-> pool[p[i]]] :
        below03 \in BOOLEAN, floor2 \in 0..1, p \in Orders(pool) }

\* criteria.map(criterion => {...}) for every outcome of the random draws.
RECURSIVE MockResults(_, _, _)
MockResults(platform, lang, cs) ==
    IF cs = <<>> THEN {<<>>}
    ELSE LET pool == AllIssues(platform, Head(cs))
             entries ==
                IF Len(pool) = 0
                THEN {[criterion |-> Translate(lang, Head(cs)), issues |-> <<>>]}
                ELSE {[criterion |-> Translate(lang, Head(cs)),
                       issues |-> [i \in 1..Len(sel) |-> Translate(lang, sel[i])]] :
                        sel \in Selections(pool)}
         IN {<<e>> \o rest : e \in entries, rest \in MockResults(platform, lang, Tail(cs))}

\* The summary object of runAudit.
MockSummaryNoTotal(results) ==
    [totalIssues |-> CriteriaWithIssues(results),
     criteriaWithIssues |-> CriteriaWithIssues(results),
     criteriaTotal |-> Len(results),
     passed |-> CriteriaWithIssues(results) = 0]

MockSummary(results) ==
    [totalIssues |-> TotalIssues(results),
     criteriaWithIssues |-> CriteriaWithIssues(results),
     criteriaTotal |-> Len(results),
     passed |-> TotalIssues(results) = 0]

\* resolve({ url, platform, timestamp, criteria: results, summary: {...} })
MockReport(url, platform, results) ==
    [url |-> url, platform |-> platform, criteria |-> results,
     summary |-> MockSummary(results)]

\* UXCriteria with its first two entries exchanged.
UXCriteriaSwapped ==
    <<"navigation", "visualHierarchy", "typography", "interactivity",
      "mobileAdaptation", "accessibility">>

\* The criteria list of runUXAudit, in the order it is written.
UXCriteria ==
    <<"visualHierarchy", "navigation", "typography", "interactivity",
      "mobileAdaptation", "accessibility">>

\* The criterion names runUXAudit writes (criterion, criterionKey).
CriterionKey(k) ==
    CASE k = "visualHierarchy" -> "Visual Hierarchy"
      [] k = "navigation" -> "Navigation"
      [] k = "typography" -> "Typography & Readability"
      [] k = "interactivity" -> "Interactivity"
      [] k = "mobileAdaptation" -> "Mobile Adaptation"
      [] k = "accessibility" -> "Accessibility"

\* RoundDiv rounding down (Math.floor for Math.round).
RoundDivFloor(x, n) == x \div n

\* Math.round(x / 6) for an integer x >= 0: half rounds up.
RoundDiv(x, n) == (2 * x + n) \div (2 * n)

\* result.summary = { totalIssues, criteriaWithIssues, criteriaTotal, averageScore, passed }
UXSummary(criteria) ==
    [totalIssues |-> TotalIssues(criteria),
     criteriaWithIssues |-> CriteriaWithIssues(criteria),
     criteriaTotal |-> Len(criteria),
     averageScore |-> RoundDiv(SumScores(criteria), Len(criteria)),
     passed |-> TotalIssues(criteria) = 0]

\* The result object of runUXAudit, from what the six routines returned.
UXReport(url, returned) ==
    LET criteria == [i \in 1..Len(UXCriteria) |->
                        [criterionKey |-> CriterionKey(UXCriteria[i]),
                         issues |-> returned[UXCriteria[i]].issues,
                         score |-> returned[UXCriteria[i]].score]]
    IN [url |-> url, criteria |-> criteria, summary |-> UXSummary(criteria)]

\* categories.performance?.score || 0, times 100, rounded
CategoryScore(cat) == IF cat.score = Null THEN 0 ELSE RoundPercent(cat.score)

\* The result object of runLighthouse: four scores and four issue lists,
\* and neither criteria nor summary.
LighthouseResult(url, audits, categories) ==
    [url |-> url,
     performance |-> CategoryScore(categories.performance),
     accessibility |-> CategoryScore(categories.accessibility),
     bestPractices |-> CategoryScore(categories.bestPractices),
     seo |-> CategoryScore(categories.seo),
     issues |-> [c \in {"performance", "accessibility", "bestPractices", "seo"} |->
                    extractCategoryDetails(audits, categories[c])]]

(***************************************************************************)
(* The three drivers building their reports, from bounded inputs.          *)
(***************************************************************************)
CheckOf(k, d) ==
    CASE k = "visualHierarchy" -> checkVisualHierarchy(d)
      [] k = "navigation" -> checkNavigation(d)
      [] k = "typography" -> checkTypography(d)
      [] k = "interactivity" -> checkInteractivity(d)
      [] k = "mobileAdaptation" -> checkMobileAdaptation(d)
      [] k = "accessibility" -> checkAccessibility(d)

\* One page per number of issues a routine can return.
IssueCounts(k) == {Len(CheckOf(k, d).issues) : d \in DataOf(k)}
SampleData(k) ==
    {CHOOSE d \in DataOf(k) : Len(CheckOf(k, d).issues) = n : n \in IssueCounts(k)}

ExampleUrl == StrHttps \o <<"x">>

ReportCategories ==
    [score : {Null, 500}, hasAuditRefs : BOOLEAN, auditRefs : {<<"a">>}]

ReportInputs ==
    { [driver |-> "runAudit", url |-> ExampleUrl, platform |-> p, lang |-> l] :
        p \in {"web", "mobile"}, l \in {"en", "ru"} }
    \cup
    { [driver |-> "runUXAudit", url |-> u, data |-> d] :
        u \in {<<"x">>, <<" ", "H", "T", "T", "P", ":", "/", "/", "x">>, ExampleUrl},
        d \in { [visualHierarchy |-> v, navigation |-> n, typography |-> t,
                 interactivity |-> i, mobileAdaptation |-> m, accessibility |-> a] :
                    v \in SampleData("visualHierarchy"), n \in SampleData("navigation"),
                    t \in SampleData("typography"), i \in SampleData("interactivity"),
                    m \in SampleData("mobileAdaptation"),
                    a \in SampleData("accessibility") } }
    \cup
    { [driver |-> "runLighthouse", url |-> ExampleUrl,
       audits |-> [id \in {"a"} |-> a], categories |-> c] :
        a \in AuditsWith({Null, 0, 995, 1000}, {0}),
        c \in [performance : ReportCategories, accessibility : ReportCategories,
               bestPractices : ReportCategories, seo : ReportCategories] }

ReportInit ==
    /\ rin \in ReportInputs
    /\ report = NoReport
    /\ NormOff /\ ScoreOff /\ LHOff /\ ConcOff /\ SrvOff

\* The setTimeout callback of runAudit.
RunAudit ==
    /\ rin.driver = "runAudit" /\ report = NoReport
    /\ \E results \in MockResults(rin.platform, rin.lang,
                                  FilterCriteria(rin.platform, MockCriteria)) :
          report' = [driver |-> "runAudit",
                     result |-> MockReport(rin.url, rin.platform, results)]
    /\ UNCHANGED <<rin, normVars, scoreVars, lhVars, concVars, srvVars>>

\* runUXAudit as /api/ux-audit calls it (with normalizeUrl(url)), on a run
\* where nothing throws: url = normalizeUrl(url), new URL(url), and from the
\* resolved Promise.all to `return result`.
RunUXAudit ==
    /\ rin.driver = "runUXAudit" /\ report = NoReport
    /\ URLParses(normalizeUrl(normalizeUrl(rin.url)))
    /\ report' = [driver |-> "runUXAudit",
                  result |-> UXReport(normalizeUrl(normalizeUrl(rin.url)),
                                [k \in Routines |-> CheckOf(k, rin.data[k])])]
    /\ UNCHANGED <<rin, normVars, scoreVars, lhVars, concVars, srvVars>>

\* runLighthouse from the categories check to `return result`.
RunLighthouse ==
    /\ rin.driver = "runLighthouse" /\ report = NoReport
    /\ report' = [driver |-> "runLighthouse",
                  result |-> LighthouseResult(rin.url, rin.audits, rin.categories)]
    /\ UNCHANGED <<rin, normVars, scoreVars, lhVars, concVars, srvVars>>

ReportNext == RunAudit \/ RunUXAudit \/ RunLighthouse

SpecReport == ReportInit /\ [][ReportNext]_vars

(***************************************************************************)
(* C5 as claimed: every report of runAudit, runUXAudit and runLighthouse   *)
(* carries a summary whose totalIssues is the sum of issues.length over    *)
(* criteria, whose criteriaWithIssues is the number of criteria with a     *)
(* non-empty issues list, and whose passed is true iff totalIssues is 0.   *)
(***************************************************************************)
\* The issues of a report, one pair per issue: (criterion index, issue index).
IssueSlots(criteria) ==
    UNION { {<<i, j>> : j \in 1..Len(criteria[i].issues)} : i \in 1..Len(criteria) }

SummaryFits(r) ==
    /\ {"criteria", "summary"} \subseteq DOMAIN r
    /\ r.summary.totalIssues = Cardinality(IssueSlots(r.criteria))
    /\ r.summary.criteriaWithIssues =
            Cardinality({i \in 1..Len(r.criteria) : r.criteria[i].issues # <<>>})
    /\ r.summary.passed <=> (r.summary.totalIssues = 0)

EveryReportHasFittingSummary ==
    report # NoReport => SummaryFits(report.result)

(***************************************************************************)
(* C5 as amended: every report of runAudit and of runUXAudit carries such  *)
(* a summary; the result of runLighthouse has neither criteria nor         *)
(* summary (it carries four category scores and four issue lists).         *)
(***************************************************************************)
SummaryFitsWhereBuilt ==
    report # NoReport =>
        IF report.driver = "runLighthouse"
        THEN /\ "summary" \notin DOMAIN report.result
             /\ "criteria" \notin DOMAIN report.result
             /\ "issues" \in DOMAIN report.result
        ELSE SummaryFits(report.result)

\* A mock report with more issues than criteria that have issues.
SummaryFitsWhereBuiltWitness ==
    /\ report.driver = "runAudit"
    /\ report.result.summary.totalIssues = 7
    /\ report.result.summary.criteriaWithIssues = 4
    /\ ~report.result.summary.passed

\* A UX report without any issue.
SummaryFitsWhereBuiltWitnessPassed ==
    /\ report.driver = "runUXAudit"
    /\ report.result.summary.passed
    /\ report.result.summary.totalIssues = 0

(***************************************************************************)
(* C14: a successful runUXAudit report has exactly 6 criteria entries, in  *)
(* the order visual hierarchy, navigation, typography, interactivity,      *)
(* mobile adaptation, accessibility, each holding what its routine         *)
(* returned; summary.criteriaTotal is 6; and its url is the normalized     *)
(* request url (example.com becomes https://example.com).                  *)
(***************************************************************************)
UXReportShape ==
    (report # NoReport /\ report.driver = "runUXAudit") =>
        LET r == report.result
        IN /\ Len(r.criteria) = 6
           /\ [i \in 1..6 |-> r.criteria[i].criterionKey] =
                <<"Visual Hierarchy", "Navigation", "Typography & Readability",
                  "Interactivity", "Mobile Adaptation", "Accessibility">>
           /\ r.criteria[1].issues = checkVisualHierarchy(rin.data.visualHierarchy).issues
           /\ r.criteria[2].issues = checkNavigation(rin.data.navigation).issues
           /\ r.criteria[3].issues = checkTypography(rin.data.typography).issues
           /\ r.criteria[4].issues = checkInteractivity(rin.data.interactivity).issues
           /\ r.criteria[5].issues = checkMobileAdaptation(rin.data.mobileAdaptation).issues
           /\ r.criteria[6].issues = checkAccessibility(rin.data.accessibility).issues
           /\ r.summary.criteriaTotal = 6
           /\ \E t \in {SubSeq(rin.url, a, b) :
                            a \in 1..(Len(rin.url) + 1), b \in 0..Len(rin.url)} :
                 /\ IsTrimOf(t, rin.url)
                 /\ r.url = IF HasHttpScheme(t) THEN t ELSE StrHttps \o t

\* url=example.com: the report's url carries https://.
UXReportShapeWitness ==
    /\ report.driver = "runUXAudit" /\ rin.url = <<"x">>
    /\ report.result.url = <<"h", "t", "t", "p", "s", ":", "/", "/", "x">>
    /\ report.result.summary.criteriaTotal = 6
    /\ report.result.criteria[2].issues # <<>>

(***************************************************************************)
(* C20: in a successful runUXAudit report summary.averageScore is the mean *)
(* of the six criterion scores rounded to the nearest integer, an integer  *)
(* in [0,100], and it is 100 if and only if every criterion scored 100.    *)
(***************************************************************************)
AverageIsRoundedMean ==
    (report # NoReport /\ report.driver = "runUXAudit") =>
        LET cs == report.result.criteria
            sum == cs[1].score + cs[2].score + cs[3].score
                    + cs[4].score + cs[5].score + cs[6].score
            avg == report.result.summary.averageScore
        IN /\ Len(cs) = 6
           /\ avg \in 0..100
           /\ 6 * avg - sum \in (0 - 3)..3
           /\ avg = 100 <=> \A i \in 1..6 : cs[i].score = 100

\* Scores 100, 80, 100, 100, 75, 100: the mean 92.5 is reported as 93.
AverageIsRoundedMeanWitness ==
    /\ report.driver = "runUXAudit"
    /\ report.result.criteria[2].score = 80
    /\ report.result.criteria[5].score = 75
    /\ \A i \in {1, 3, 4, 6} : report.result.criteria[i].score = 100
    /\ report.result.summary.averageScore = 93

\* One issue in one criterion: the average is below 100.
AverageIsRoundedMeanWitnessNear ==
    /\ report.driver = "runUXAudit"
    /\ report.result.summary.totalIssues = 1
    /\ report.result.summary.averageScore = 97

(***************************************************************************)
(* C15: for platform web and mobile and every outcome of the random draws, *)
(* runAudit reports the six fixed categories in their fixed order, with    *)
(* Mobile-specific present if and only if the platform is mobile;          *)
(* summary.criteriaTotal is the number of criteria returned; and each      *)
(* category holds 0 to 2 issues, pairwise distinct, all from that          *)
(* category's candidate pool for the platform.                             *)
(***************************************************************************)
CandidatePool(platform, criterion) ==
    CASE criterion = "Layout & Structure" ->
            {"inconsistentSpacing"} \cup
            (IF platform = "web" THEN {"contentWidthExceeds"} ELSE {"horizontalScrolling"})
      [] criterion = "Navigation" ->
            {"confusingHierarchy"} \cup
            (IF platform = "web" THEN {"noStickyHeader"} ELSE {"hamburgerMenuMissing"})
      [] criterion = "Typography & Readability" ->
            {"insufficientLineSpacing"} \cup
            (IF platform = "web" THEN {"fontSizeTooSmall"} ELSE {"poorReadability"})
      [] criterion = "Accessibility" ->
            {"missingAltText", "lowContrast", "noKeyboardNav"}
      [] criterion = "Mobile-specific" ->
            {"tapTargetsTooSmall", "viewportMissing", "noResponsiveLayout"}
      [] criterion = "Visual hierarchy" ->
            {"inconsistentHeadings", "noClearCTA", "overuseOfBold"}

ExpectedCategories(platform) ==
    IF platform = "mobile"
    THEN <<"Layout & Structure", "Navigation", "Typography & Readability",
           "Accessibility", "Mobile-specific", "Visual hierarchy">>
    ELSE <<"Layout & Structure", "Navigation", "Typography & Readability",
           "Accessibility", "Visual hierarchy">>

MockReportShape ==
    (report # NoReport /\ report.driver = "runAudit") =>
        LET r == report.result
            cs == r.criteria
            want == ExpectedCategories(rin.platform)
        IN /\ r.platform = rin.platform
           /\ Len(cs) = Len(want)
           /\ \A i \in 1..Len(cs) : cs[i].criterion = <<rin.lang, want[i]>>
           /\ r.summary.criteriaTotal = Len(cs)
           /\ \A i \in 1..Len(cs) :
                LET is == cs[i].issues
                IN /\ Len(is) \in 0..2
                   /\ \A j, k \in 1..Len(is) : j # k => is[j] # is[k]
                   /\ \A j \in 1..Len(is) :
                        /\ is[j][1] = rin.lang
                        /\ is[j][2] \in CandidatePool(rin.platform, want[i])

\* A mobile report with two Mobile-specific issues and an empty category.
MockReportShapeWitness ==
    /\ report.driver = "runAudit" /\ rin.platform = "mobile"
    /\ Len(report.result.criteria) = 6
    /\ Len(report.result.criteria[5].issues) = 2
    /\ report.result.criteria[1].issues = <<>>

\* A web report: five categories.
MockReportShapeWitnessWeb ==
    /\ report.driver = "runAudit" /\ rin.platform = "web"
    /\ report.result.summary.criteriaTotal = 5
    /\ Len(report.result.criteria[4].issues) = 2

(***************************************************************************)
(* Claims about the request life cycle, checked under Spec.                *)
(***************************************************************************)
BrowserDrivers == {"runLighthouse", "runUXAudit"}
AuditEndpoints == {"/api/audit", "pages/api/audit"}
BrowserEndpoints == {"/api/lighthouse", "/api/ux-audit"}

RunEnded == call.driver \in BrowserDrivers /\ dpc = "settled"

\* s ends with t
EndsWith(s, t) ==
    Len(s) >= Len(t) /\ SubSeq(s, Len(s) - Len(t) + 1, Len(s)) = t

(***************************************************************************)
(* Several /api/lighthouse and /api/ux-audit requests in flight at once.   *)
(* Each call of a driver has its own local `chrome` / `browser`; the       *)
(* stages of a call are launch, audit, cleanup and the route's response.   *)
(***************************************************************************)
MaxRequests == 2   \* requests in flight at once

Requests == 1..MaxRequests

\* How handle h is reached in cprocs (0 is null).
NoHandle == 0

ConcInit ==
    /\ creqs \in [Requests -> [driver : BrowserDrivers, pc : {"validate"},
                               handle : {NoHandle}, done : {"none"}, status : {0}]]
    /\ cprocs = <<>>
    /\ NormOff /\ ScoreOff /\ LHOff /\ ReportOff /\ SrvOff

ConcStep(i, r) ==
    /\ creqs' = [creqs EXCEPT ![i] = r]
    /\ UNCHANGED <<normVars, scoreVars, lhVars, reportVars, srvVars>>

\* url = normalizeUrl(url); new URL(url); and, in runLighthouse, the import
\* of chrome-launcher: a throw goes to the catch block and on to finally.
ConcValidate(i) ==
    /\ creqs[i].pc = "validate"
    /\ \/ ConcStep(i, [creqs[i] EXCEPT !.pc = "launch"])
       \/ ConcStep(i, [creqs[i] EXCEPT !.pc = "finally", !.done = "throw"])
    /\ UNCHANGED cprocs

\* chrome = await chromeLauncher.default.launch(...) with the port check
\* that follows it; browser = await puppeteer.launch(...). A launch that
\* returns starts a new process and the call's own handle refers to it.
ConcLaunch(i) ==
    /\ creqs[i].pc = "launch"
    /\ \/ /\ ConcStep(i, [creqs[i] EXCEPT !.pc = "finally", !.done = "throw"])
          /\ UNCHANGED cprocs
       \/ /\ cprocs' = Append(cprocs, [owner |-> i, state |-> "live",
                                       closers |-> {}, closeErr |-> FALSE])
          /\ \/ ConcStep(i, [creqs[i] EXCEPT !.pc = "audit",
                                             !.handle = Len(cprocs) + 1])
             \/ /\ creqs[i].driver = "runLighthouse"
                /\ ConcStep(i, [creqs[i] EXCEPT !.pc = "finally", !.done = "throw",
                                                !.handle = Len(cprocs) + 1])

\* Everything between the launch and the end of the try block: it returns
\* the report or throws into the catch block, which rethrows.
ConcAudit(i) ==
    /\ creqs[i].pc = "audit"
    /\ \E d \in {"return", "throw"} :
          ConcStep(i, [creqs[i] EXCEPT !.pc = "finally", !.done = d])
    /\ UNCHANGED cprocs

\* The close or kill call request i makes on handle h.
ConcClose(i, h) ==
    \E threw \in BOOLEAN, after \in {"live", "closed"} :
        /\ ~threw => after = "closed"
        /\ cprocs' = [cprocs EXCEPT ![h] =
                        [@ EXCEPT !.state = after, !.closers = @ \cup {i},
                                  !.closeErr = @ \/ threw]]

\* ConcFinally closing the browser launched last, as it would with the
\* handle kept in a variable shared by all calls.
ConcFinallyShared(i) ==
    /\ creqs[i].pc = "finally"
    /\ IF cprocs # <<>> THEN ConcClose(i, Len(cprocs)) ELSE UNCHANGED cprocs
    /\ ConcStep(i, [creqs[i] EXCEPT !.pc = "settled"])

\* finally { if (chrome) { try { await chrome.kill() } catch {} } } and the
\* same with browser.close() in runUXAudit.
ConcFinally(i) ==
    /\ creqs[i].pc = "finally"
    /\ IF creqs[i].handle # NoHandle
       THEN ConcClose(i, creqs[i].handle)
       ELSE UNCHANGED cprocs
    /\ ConcStep(i, [creqs[i] EXCEPT !.pc = "settled"])

\* res.status(200).json(result) or the route's catch block.
ConcRespond(i) ==
    /\ creqs[i].pc = "settled"
    /\ ConcStep(i, [creqs[i] EXCEPT !.pc = "responded",
                        !.status = IF creqs[i].done = "return" THEN 200 ELSE 500])
    /\ UNCHANGED cprocs

ConcNext ==
    \E i \in Requests :
        \/ ConcValidate(i) \/ ConcLaunch(i) \/ ConcAudit(i)
        \/ ConcFinally(i) \/ ConcRespond(i)

SpecConc == ConcInit /\ [][ConcNext]_vars

(***************************************************************************)
(* C16 as claimed: with several requests in flight, under any interleaving *)
(* and any mix of successes and failures, each request launches its own    *)
(* browser, its cleanup closes only the browser it launched, and once all  *)
(* requests have been answered no browser is left live.                    *)
(***************************************************************************)
AllAnswered == \A i \in Requests : creqs[i].pc = "responded"

OwnBrowserOnly ==
    /\ \A h \in 1..Len(cprocs) :
          /\ cprocs[h].closers \subseteq {cprocs[h].owner}
          /\ creqs[cprocs[h].owner].handle = h
    /\ \A i \in Requests :
          /\ Cardinality({h \in 1..Len(cprocs) : cprocs[h].owner = i}) <= 1
          /\ creqs[i].handle # NoHandle => cprocs[creqs[i].handle].owner = i

NoBrowserLeftLive ==
    /\ OwnBrowserOnly
    /\ AllAnswered => \A h \in 1..Len(cprocs) : cprocs[h].state # "live"

(***************************************************************************)
(* C16 as amended: each request launches its own browser and its cleanup   *)
(* makes its close/kill call on that browser only; once all requests have  *)
(* been answered every launched browser has had that call made on it by    *)
(* the request that launched it, and a browser still live is one whose     *)
(* close/kill call threw.                                                  *)
(***************************************************************************)
EachClosesItsOwn ==
    /\ OwnBrowserOnly
    /\ \A i \in Requests :
          creqs[i].pc \in {"settled", "responded"} =>
              \A h \in 1..Len(cprocs) :
                  cprocs[h].owner = i =>
                      /\ cprocs[h].closers = {i}
                      /\ cprocs[h].state = "live" => cprocs[h].closeErr
    /\ \A h \in 1..Len(cprocs) :
          creqs[cprocs[h].owner].pc \in {"audit", "finally"} =>
              cprocs[h].state = "live" /\ cprocs[h].closers = {}

\* Two requests answered, one with a report and one with an error, each
\* having launched and closed a browser of its own.
EachClosesItsOwnWitness ==
    /\ AllAnswered
    /\ Len(cprocs) >= 2
    /\ cprocs[1].owner # cprocs[2].owner
    /\ cprocs[1].state = "closed" /\ cprocs[2].state = "closed"
    /\ creqs[1].status = 200 /\ creqs[2].status = 500

(***************************************************************************)
(* C1: a run of runUXAudit or runLighthouse launches at most one browser;  *)
(* whichever stage failed, when the run ends the close/kill calls number   *)
(* exactly 1 if the launch returned a browser and 0 if it did not, and at  *)
(* no time are there more close calls than browsers.                       *)
(***************************************************************************)
LaunchClosePaired ==
    /\ launches <= 1
    /\ closes <= launches
    /\ RunEnded => closes = launches
    /\ browser = "null" <=> launches = 0

\* A run that failed after its launch, and whose close failed as well.
LaunchClosePairedWitness ==
    /\ RunEnded /\ launches = 1 /\ closes = 1
    /\ completion.kind = "throw" /\ closeErr

\* A run of runLighthouse whose chrome came back without a port.
LaunchClosePairedWitnessNoPort ==
    RunEnded /\ browser = "chromeNoPort" /\ closes = 1

(***************************************************************************)
(* C2 as claimed: no response has been sent, and no outcome has reached    *)
(* the caller, while the request's browser is still live.                  *)
(***************************************************************************)
NoOutcomeWhileBrowserLive ==
    (res.status # 0 \/ dpc = "settled") => proc # "live"

(***************************************************************************)
(* C2 as amended: the stages come in the order launch, audit, result       *)
(* extraction, cleanup, outcome. The close/kill call is made only once the *)
(* try block has completed (with a report or an error); the outcome        *)
(* reaches the caller and the response is sent only after that call has    *)
(* returned or thrown; and a browser still live at that time is one whose  *)
(* close/kill call threw.                                                  *)
(***************************************************************************)
OutcomeAfterCleanup ==
    /\ closes > 0 => completion.kind # "none"
    /\ (call.driver \in BrowserDrivers /\ res.status # 0) => dpc = "settled"
    /\ (RunEnded /\ launches > 0) => closes = 1 /\ (proc = "live" => closeErr)
    /\ (call.driver \in BrowserDrivers /\ dpc # "settled" /\ launches > 0)
            => closes = 0 /\ proc = "live"

\* A report answered with 200 after its browser was closed.
OutcomeAfterCleanupWitness ==
    /\ res.status = 200 /\ call.driver = "runUXAudit"
    /\ launches = 1 /\ closes = 1 /\ proc = "closed"

(***************************************************************************)
(* C3 as claimed: while the six routines run, none changes the page, and   *)
(* each observes the 1920x1080 page loaded by the initial navigation.      *)
(***************************************************************************)
RoutinesOnlyRead ==
    (\E k \in Routines : rpc[k] # "off") =>
        /\ page = Snapshot
        /\ \A k \in Routines : saw[k] # "changed"

\* The same, for the observations alone: what a routine other than
\* checkMobileAdaptation reads is the snapshot.
OthersSeeSnapshot ==
    \A k \in Routines \ {"mobileAdaptation"} : saw[k] # "changed"

(***************************************************************************)
(* C8 as claimed: on GET /api/audit a missing url is answered 400 with the *)
(* missing-URL message in the request's effective language, whatever the   *)
(* platform; a present url with a platform other than web and mobile is    *)
(* answered 400 with the invalid-platform message; runAudit is not called. *)
(***************************************************************************)
MissingUrlKeys == {"missingUrlParameter", "missingUrl"}

MessageLang(q) ==
    IF q.endpoint = "/api/audit" THEN ValidLang(q.lang) ELSE "ru"

AuditRejectsInvalidUrl ==
    ( /\ req.endpoint \in AuditEndpoints /\ hpc = "responded"
      /\ ~Falsy(req.url) /\ ~URLParses(normalizeUrl(req.url))
      /\ res.status \notin {500, 503} )
    => res.status = 400 /\ res.body # "report"

(***************************************************************************)
(* C10: on GET /api/lighthouse and GET /api/ux-audit a missing url is      *)
(* answered 400 without the driver being invoked; a url that is present    *)
(* but does not parse after normalization makes the invoked driver fail    *)
(* with the invalid-URL error, and the response is 500 with that message   *)
(* in details.                                                             *)
(***************************************************************************)
ModuleLoaded(q) ==
    IF q.endpoint = "/api/ux-audit" THEN loaded.ux ELSE loaded.audit

InvalidUrlMessage(q) == <<"Invalid URL format: ">> \o normalizeUrl(q.url)

BrowserEndpointsRejectInvalidUrl ==
    (req.endpoint \in BrowserEndpoints /\ hpc = "responded") =>
        /\ Falsy(req.url) => res.status = 400 /\ call.driver = "none"
        /\ (~Falsy(req.url) /\ ~URLParses(normalizeUrl(req.url)) /\ ModuleLoaded(req)) =>
              /\ call.driver \in BrowserDrivers
              /\ completion.kind = "throw"
              /\ EndsWith(completion.msg, InvalidUrlMessage(req))
              /\ res.status = 500
              /\ res.details = completion.msg

\* GET /api/lighthouse?url=not a url
BrowserEndpointsRejectInvalidUrlWitness ==
    /\ req.endpoint = "/api/lighthouse" /\ req.url = <<"x", " ", "x">>
    /\ res.status = 500
    /\ res.details = <<"Lighthouse audit failed: ", "Invalid URL format: ">>
                        \o StrHttps \o <<"x", " ", "x">>

(***************************************************************************)
(* C11 as claimed: when a driver module failed to load the server still    *)
(* starts; a request to that driver's endpoint that passes input           *)
(* validation is answered 503, never 500, and no driver is invoked;        *)
(* endpoints whose module loaded answer 200 or 500 from their driver, and  *)
(* /health answers 200.                                                    *)
(***************************************************************************)
DriverEndpoints == {"/api/audit", "/api/lighthouse", "/api/ux-audit"}

PassesValidation(q) ==
    /\ ~Falsy(q.url)
    /\ q.endpoint = "/api/audit" => PlatformOf(q) \in {"web", "mobile"}

AnswersAroundUnloadedModule ==
    (hpc = "responded" /\ req.endpoint \in DriverEndpoints /\ PassesValidation(req)) =>
        IF ModuleLoaded(req)
        THEN res.status \in {200, 500} /\ call.driver # "none"
        ELSE res.status = 503 /\ call.driver = "none"

UnloadedModuleAnswers503 ==
    /\ hpc # "down"
    /\ AnswersAroundUnloadedModule
    /\ (req.endpoint \in DriverEndpoints /\ ~ModuleLoaded(req)) =>
            res.status # 500 /\ call.driver = "none"
    /\ (req.endpoint = "/health" /\ hpc = "responded") => res.status = 200

(***************************************************************************)
(* C12 as claimed: when the driver of /api/lighthouse or /api/ux-audit     *)
(* fails, the response is 500 with an error field and the failure message  *)
(* in details, and it carries a stack trace if and only if NODE_ENV is not *)
(* 'production'.                                                           *)
(***************************************************************************)
DriverFailed ==
    /\ req.endpoint \in BrowserEndpoints /\ hpc = "responded"
    /\ completion.kind = "throw"

FailureIs500 ==
    /\ res.status = 500
    /\ res.error = (IF req.endpoint = "/api/lighthouse"
                    THEN "Lighthouse audit failed" ELSE "UX audit failed")
    /\ res.details = completion.msg /\ res.details # <<>>

StackOnlyInDevelopmentWitnessDev ==
    /\ DriverFailed /\ req.endpoint = "/api/ux-audit"
    /\ res.status = 500 /\ res.nodeEnv = "development" /\ res.stack

(***************************************************************************)
(* C13: on /api/audit, /api/lighthouse and /api/ux-audit the driver is     *)
(* invoked with the request's lang when that is 'en' or 'ru' and with 'ru' *)
(* when lang is absent or anything else; a 400 is always due to the url or *)
(* the platform, and a 500 to a driver that failed after it was handed     *)
(* 'en' or 'ru', never to the lang value.                                  *)
(***************************************************************************)
LangIsEnOrRu ==
    req.endpoint \in DriverEndpoints =>
        /\ call.driver # "none" =>
              /\ call.lang \in {"en", "ru"}
              /\ req.lang \in {"en", "ru"} => call.lang = req.lang
              /\ req.lang \notin {"en", "ru"} => call.lang = "ru"
        /\ res.status = 400 => ~PassesValidation(req)
        /\ res.status = 500 => completion.kind = "throw" /\ call.lang \in {"en", "ru"}

\* lang=de on /api/ux-audit: the driver ran with ru and the answer is 200.
LangIsEnOrRuWitness ==
    /\ req.endpoint = "/api/ux-audit" /\ req.lang = "de"
    /\ call.lang = "ru" /\ res.status = 200

(***************************************************************************)
(* C21: runUXAudit returns a report only if all six inspection routines    *)
(* succeeded; once one routine has failed the audit fails with an error,   *)
(* and no report is returned or answered.                                  *)
(***************************************************************************)
SomeRoutineFailed == \E k \in Routines : rpc[k] = "failed"

ReportOnlyFromSixRoutines ==
    call.driver = "runUXAudit" =>
        /\ completion.kind = "return" => \A k \in Routines : rpc[k] = "done"
        /\ res.status = 200 => \A k \in Routines : rpc[k] = "done"
        /\ (dpc = "settled" /\ SomeRoutineFailed) => completion.kind = "throw"
        /\ (res.status # 0 /\ SomeRoutineFailed) =>
                res.status = 500 /\ res.body = "error"

\* One routine failed while the other five succeeded: the answer is 500.
ReportOnlyFromSixRoutinesWitness ==
    /\ call.driver = "runUXAudit"
    /\ rpc["typography"] = "failed"
    /\ \A k \in Routines \ {"typography"} : rpc[k] = "done"
    /\ err = <<"<check error>">>
    /\ res.status = 500

\* All six succeeded: the answer is the report.
ReportOnlyFromSixRoutinesWitnessAll ==
    /\ call.driver = "runUXAudit"
    /\ \A k \in Routines : rpc[k] = "done"
    /\ res.status = 200 /\ res.body = "report"

(***************************************************************************)
(* C22 as claimed: in runUXAudit, once the browser's close has been        *)
(* called no inspection routine is in flight against the page or performs  *)
(* a further operation on it: every routine that was started has finished  *)
(* (with a result or a failure) by then.                                   *)
(***************************************************************************)
NoRoutineInFlightAfterClose ==
    (call.driver = "runUXAudit" /\ closes > 0) =>
        \A k \in Routines : rpc[k] \in {"off", "done", "failed"}

\* The same, at the step that makes the close call.
NoRoutineInFlightAtClose ==
    [][(call.driver = "runUXAudit" /\ closes' > closes) =>
            \A k \in Routines : rpc[k] \in {"off", "done", "failed"}]_vars

\* checkMobileAdaptation issuing its second page.evaluate on a closed browser.
EvaluateAfterClose ==
    /\ call.driver = "runUXAudit" /\ closes = 1 /\ proc = "closed"
    /\ rpc["mobileAdaptation"] = "evaluate2"

(***************************************************************************)
(* C23: in runUXAudit and runLighthouse a close/kill call that fails does  *)
(* not change the outcome: a run whose try block produced a report still   *)
(* returns it (answered 200), and a run whose try block failed still       *)
(* throws the original failure under the driver's prefix (answered 500     *)
(* with that message), never the close error.                              *)
(***************************************************************************)
FailurePrefix(driver) ==
    IF driver = "runLighthouse" THEN <<"Lighthouse audit failed: ">>
                                ELSE <<"UX audit failed: ">>

\* The outcome of the try and catch blocks: err is set by the throw that
\* left the try block and stays empty on the path to `return result`.
OutcomeBeforeCleanup ==
    IF err = <<>> THEN [kind |-> "return", msg |-> <<>>]
    ELSE [kind |-> "throw", msg |-> FailurePrefix(call.driver) \o err]

OutcomeSurvivesCloseFailure ==
    (call.driver \in BrowserDrivers /\ closes > 0) =>
        /\ completion = OutcomeBeforeCleanup
        /\ res.status # 0 =>
              IF err = <<>>
              THEN res.status = 200 /\ res.body = "report"
              ELSE res.status = 500 /\ res.details = FailurePrefix(call.driver) \o err

\* The close threw after a report was built: the report is answered.
OutcomeSurvivesCloseFailureWitness ==
    /\ call.driver \in BrowserDrivers /\ closes = 1 /\ closeErr
    /\ err = <<>> /\ res.status = 200

\* The kill threw after Lighthouse failed: the Lighthouse failure is answered.
OutcomeSurvivesCloseFailureWitnessFailed ==
    /\ call.driver = "runLighthouse" /\ closes = 1 /\ closeErr
    /\ res.status = 500
    /\ res.details = <<"Lighthouse audit failed: ", "Lighthouse audit failed: ", "<cause>">>

(***************************************************************************)
(* C24: in runUXAudit and runLighthouse, when the normalized url does not  *)
(* parse the run fails at the validation: it never reaches the import of   *)
(* the launcher or of the engine, launches no browser, opens no page and   *)
(* makes no close/kill call, and what it throws is the invalid-URL error.  *)
(***************************************************************************)
ValidationPcs == {"l_validate", "u_validate"}
FailingPcs == {"l_catch", "u_catch", "l_finally", "u_finally", "settled"}

ValidationPrecedesExternalActions ==
    (call.driver \in BrowserDrivers /\ dpc \notin ValidationPcs /\ ~URLParses(durl)) =>
        /\ dpc \in FailingPcs
        /\ err = <<"Invalid URL format: ">> \o durl
        /\ launches = 0 /\ closes = 0 /\ browser = "null" /\ proc = "none"
        /\ page = NoPage /\ \A k \in Routines : rpc[k] = "off"
        /\ dpc = "settled" => completion.kind = "throw"

\* "https://x x" handed to runUXAudit: the run has ended, nothing was launched.
ValidationPrecedesExternalActionsWitness ==
    /\ call.driver = "runUXAudit" /\ dpc = "settled"
    /\ durl = StrHttps \o <<"x", " ", "x">>
    /\ launches = 0 /\ closes = 0
    /\ res.status = 500

\* "http://" handed to runLighthouse.
ValidationPrecedesExternalActionsWitnessLH ==
    /\ call.driver = "runLighthouse" /\ dpc = "settled"
    /\ durl = StrHttp
    /\ launches = 0 /\ closes = 0

(***************************************************************************)
(* Inputs of normalizeUrl: padding, a scheme-like prefix, a tail, padding. *)
(***************************************************************************)
SchemeWords ==
    { <<>>,
      <<"h", "t", "t", "p">>, <<"H", "T", "T", "P">>, <<"h", "T", "t", "P">>,
      <<"h", "t", "p">>, <<"f", "t", "p">> }
SchemeS   == { <<>>, <<"s">>, <<"S">> }
SchemeSep == { <<>>, <<":", "/">>, <<"/", "/">>, <<":", "/", "/">> }
Tails ==
    { <<>>, <<"x">>, <<"x", " ", "x">>, <<"x", "/", "x">>, <<":", "x">>,
      StrHttps \o <<"x">> }

NormInputs ==
    {Undefined} \cup
    { a \o w \o s \o p \o t \o b :
        a \in SeqsUpTo(WhiteSpace, MaxPad), w \in SchemeWords, s \in SchemeS,
        p \in SchemeSep, t \in Tails,
        b \in SeqsUpTo(WhiteSpace, MaxPad) }

NormInit ==
    /\ nurl \in NormInputs /\ nres = <<>> /\ npc = "call"
    /\ SrvOff /\ ScoreOff /\ LHOff /\ ReportOff /\ ConcOff

NormalizeUrl ==
    /\ npc = "call"
    /\ nres' = normalizeUrl(nurl)
    /\ npc' = "ret"
    /\ UNCHANGED <<nurl, srvVars, scoreVars, lhVars, reportVars, concVars>>

NormNext == NormalizeUrl

SpecNorm == NormInit /\ [][NormNext]_vars

(***************************************************************************)
(* C7: for a non-empty input, normalizeUrl returns the trimmed input when  *)
(* the trimmed input begins with http:// or https:// in any letter case,   *)
(* and otherwise "https://" followed by the trimmed input, the prefix      *)
(* added exactly once; an empty or absent input is returned as is.         *)
(***************************************************************************)
NormalizeUrlContract ==
    npc = "ret" =>
        IF nurl = Undefined \/ nurl = <<>>
        THEN nres = nurl
        ELSE \E t \in {SubSeq(nurl, a, b) : a \in 1..(Len(nurl) + 1), b \in 0..Len(nurl)} :
                /\ IsTrimOf(t, nurl)
                /\ IF HasHttpScheme(t) THEN nres = t
                   ELSE /\ nres = StrHttps \o t
                        /\ Len(nres) = Len(t) + 8

\* A padded input without a scheme and a padded input with an upper-case one.
NormalizeUrlWitness ==
    /\ npc = "ret"
    /\ nurl = <<" ", "H", "T", "T", "P", "S", ":", "/", "/", "x", "\n">>
    /\ nres = <<"H", "T", "T", "P", "S", ":", "/", "/", "x">>

(***************************************************************************)
(* C25: normalizeUrl is idempotent: applied to a value it returned, it     *)
(* returns that value unchanged.                                           *)
(***************************************************************************)
NormalizeUrlIdempotent ==
    npc = "ret" => normalizeUrl(nres) = nres

\* A padded input without a scheme: changed by the first call only.
NormalizeUrlIdempotentWitness ==
    /\ npc = "ret"
    /\ nurl = <<" ", "x", "\n">>
    /\ nres = StrHttps \o <<"x">>
    /\ normalizeUrl(nres) = nres

\* Whitespace alone becomes the bare prefix, which is kept as it is.
NormalizeUrlIdempotentWitnessBlank ==
    /\ npc = "ret"
    /\ nurl = <<" ">>
    /\ nres = StrHttps

\* The url a browser driver works on after its own normalizeUrl call is the
\* url the route handler normalized and passed to it.
DriverKeepsHandlerUrl ==
    (call.driver \in BrowserDrivers /\ dpc \notin ValidationPcs) =>
        durl = call.url /\ call.url = normalizeUrl(req.url)

====
